---- MODULE Spec2Model ----
(***************************************************************************)
(* The semantic middle-end of the Zirco compiler (zrc):                    *)
(*   - zrc_typeck  type_block : AST block -> TAST block + return actuality *)
(*   - zrc_codegen cg_block, cg_for_stmt, cg_while_stmt, cg_do_while_stmt  *)
(*                 : TAST block -> basic-block CFG                         *)
(*   - zrc_codegen cg_place   : TAST place -> pointer                      *)
(*   - zrc         cli        : command line -> backend optimisation level *)
(* Both stages are pure, single-threaded tree walks.  They are modelled as *)
(* recursive operators; the actions apply them to inputs that Init draws   *)
(* from bounded sets of syntax trees.                                      *)
(***************************************************************************)
EXTENDS Integers, Sequences, FiniteSets, TLC

VARIABLES
    input,   \* arguments of the outermost type_block call
    tc,      \* result of type_block (pending / ok / err / panic)
    cg,      \* result of code generation for the function body
    pl,      \* a place and the result of cg_place on it
    cli      \* a command line and what the driver makes of it

vars == <<input, tc, cg, pl, cli>>

(***************************************************************************)
(* Bounds of the model.                                                    *)
(***************************************************************************)
\* number of statements (at any depth) in a block handed to type_block alone
MaxTcNodes == 3
\* number of statements (at any depth) in a function body that is compiled
MaxCgNodes == 3
\* nesting depth of Dot / Index / Deref in a place
MaxPlaceDepth == 3
\* number of statements (at any depth) in a function body with declarations
MaxScopeNodes == 4
\* number of statements (at any depth) in a block of switch statements
MaxSwitchNodes == 4
\* number of statements (at any depth) in a block that must not return
MaxReturnNodes == 3

(***************************************************************************)
(* Spans and options.                                                      *)
(***************************************************************************)
\* Span: half-open byte range <<start, end>>
Span(s, e) == <<s, e>>
SpanStart(sp) == sp[1]
SpanEnd(sp) == sp[2]
\* Spanned<T>: a value in a span
Spanned(v, sp) == [v |-> v, span |-> sp]
\* strict containment of spans (a node inside another node)
Inside(inner, outer) ==
    /\ SpanStart(outer) <= SpanStart(inner)
    /\ SpanEnd(inner) <= SpanEnd(outer)
    /\ inner # outer

\* Option<T> is a sequence of length 0 (None) or 1 (Some)
None == <<>>
Some(x) == <<x>>
IsSome(o) == Len(o) = 1
Unwrap(o) == o[1]

\* `let x = v; F(x)`: v is evaluated, then F is applied to its value
AndThen(v, F(_)) == CHOOSE out \in {F(x) : x \in {v}} : TRUE

(***************************************************************************)
(* Scope: identifier -> binding.  The type checker binds a name to its     *)
(* declared type, the code generator to the pointer of its stack slot.     *)
(***************************************************************************)
Names == {"x", "i", "y"}
\* a scope with no binding
EmptyScope == [n \in Names |-> None]
\* Scope::clone
clone(scope) == scope
\* insertion of a binding; a binding of the same name is replaced
insert(scope, name, binding) == [scope EXCEPT ![name] = Some(binding)]
\* lookup: Option of the binding
get(scope, name) == scope[name]

(***************************************************************************)
(* Types (tast::ty::Type), restricted to the ones the return rules tell    *)
(* apart.                                                                  *)
(***************************************************************************)
Types == {"Unit", "Bool", "I8", "I32"}
IntWidth(t) == IF t = "I8" THEN 8 ELSE IF t = "I32" THEN 32 ELSE 0

\* Type::can_implicitly_cast_to: equal types, or an integer widening of the
\* same signedness
can_implicitly_cast_to(from, to) ==
    \/ from = to
    \/ /\ IntWidth(from) > 0
       /\ IntWidth(to) > 0
       /\ IntWidth(to) >= IntWidth(from)

(***************************************************************************)
(* BlockReturnAbility / BlockReturnActuality                               *)
(***************************************************************************)
MustNotReturn == [a |-> "MustNotReturn"]
MayReturn(t) == [a |-> "MayReturn", ty |-> t]
MustReturn(t) == [a |-> "MustReturn", ty |-> t]

\* BlockReturnAbility::demote
demote(ability) ==
    IF ability.a = "MustReturn" THEN MayReturn(ability.ty) ELSE ability

Actualities == {"NeverReturns", "SometimesReturns", "AlwaysReturns"}

(***************************************************************************)
(* AST (zrc_parser::ast): expressions and statements as the parser hands   *)
(* them over.  An expression is abstracted to what the two stages look at: *)
(* whether it type-checks, its type, and whether its lowering creates      *)
(* basic blocks (short-circuit && / ||).                                   *)
(***************************************************************************)
\* a call `f()` of a declared function returning ty
CallExpr(ty) == [e |-> "call", ty |-> ty]
\* `a() && b()` with a, b declared to return bool
LogicalExpr == [e |-> "logical", ty |-> "Bool"]
\* a literal of type ty
LitExpr(ty) == [e |-> "const", ty |-> ty]
\* a reference to the identifier `name`
IdentExpr(name) == [e |-> "ident", ty |-> "?", name |-> name]
\* a reference to an identifier that no program of the model declares
UnknownIdent == IdentExpr("y")
\* LetDeclaration: `let name: ty` with an optional initial value
LetDeclaration(name, ty, value) == [name |-> name, ty |-> ty, value |-> value]

EmptyStmt == [k |-> "EmptyStmt"]
BreakStmt == [k |-> "BreakStmt"]
ContinueStmt == [k |-> "ContinueStmt"]
UnreachableStmt == [k |-> "UnreachableStmt"]
DeclarationList(declarations) ==
    [k |-> "DeclarationList", declarations |-> declarations]
ExprStmt(x) == [k |-> "ExprStmt", expr |-> x]
ReturnStmt(v) == [k |-> "ReturnStmt", value |-> v]
BlockStmt(b) == [k |-> "BlockStmt", body |-> b]
IfStmt(c, t, e) == [k |-> "IfStmt", cond |-> c, then |-> t, then_else |-> e]
WhileStmt(c, b) == [k |-> "WhileStmt", cond |-> c, body |-> b]
DoWhileStmt(b, c) == [k |-> "DoWhileStmt", body |-> b, cond |-> c]
ForStmt(i, c, p, b) ==
    [k |-> "ForStmt", init |-> i, cond |-> c, post |-> p, body |-> b]
SwitchCase(s, cs, d) ==
    [k |-> "SwitchCase", scrutinee |-> s, cases |-> cs, default |-> d]

LoopKinds == {"WhileStmt", "DoWhileStmt", "ForStmt"}

(***************************************************************************)
(* Bounded sets of blocks: every block with exactly n statements, counted  *)
(* at all depths, over an alphabet A = [leaves, conds, kinds].             *)
(***************************************************************************)
RECURSIVE BlocksOfSize(_, _), StmtsOfSize(_, _)
\* a pair of blocks of sizes i and n - i
BlockPairs(n, A) ==
    UNION {BlocksOfSize(i, A) \X BlocksOfSize(n - i, A) : i \in 0..n}
\* three blocks of sizes that add up to n
BlockTriples(n, A) ==
    UNION {{<<b, p[1], p[2]>> : b \in BlocksOfSize(i, A), p \in BlockPairs(n - i, A)} :
              i \in 0..n}

StmtsOfSize(n, A) ==
    IF n = 0 THEN {}
    ELSE
      LET bodies == BlocksOfSize(n - 1, A)
          pairs == IF A.kinds \cap {"IfElse", "SwitchDefault", "SwitchTwo"} # {}
                   THEN BlockPairs(n - 1, A) ELSE {}
          triples == IF "SwitchTwoDefault" \in A.kinds
                     THEN BlockTriples(n - 1, A) ELSE {}
      IN
      (IF n = 1 THEN A.leaves ELSE {})
      \cup (IF "BlockStmt" \in A.kinds
            THEN {BlockStmt(b) : b \in bodies} ELSE {})
      \cup (IF "IfStmt" \in A.kinds
            THEN {IfStmt(CallExpr("Bool"), b, None) : b \in bodies}
            ELSE {})
      \cup (IF "IfElse" \in A.kinds
            THEN {IfStmt(CallExpr("Bool"), p[1], Some(p[2])) : p \in pairs}
            ELSE {})
      \cup (IF "WhileStmt" \in A.kinds
            THEN {WhileStmt(c, b) : c \in A.conds, b \in bodies}
            ELSE {})
      \cup (IF "DoWhileStmt" \in A.kinds
            THEN {DoWhileStmt(b, c) : c \in A.conds, b \in bodies}
            ELSE {})
      \cup (IF "ForStmt" \in A.kinds
            THEN {ForStmt(f[1], f[2], f[3], b) : f \in A.fors, b \in bodies}
            ELSE {})
      \cup (IF "SwitchCase" \in A.kinds
            THEN {SwitchCase(CallExpr("I32"), <<b>>, None) : b \in bodies}
            ELSE {})
      \cup (IF "SwitchDefault" \in A.kinds
            THEN {SwitchCase(CallExpr("I32"), <<p[1]>>, Some(p[2])) : p \in pairs}
            ELSE {})
      \cup (IF "SwitchTwo" \in A.kinds
            THEN {SwitchCase(CallExpr("Bool"), <<p[1], p[2]>>, None) : p \in pairs}
            ELSE {})
      \cup (IF "SwitchTwoDefault" \in A.kinds
            THEN {SwitchCase(CallExpr("Bool"), <<t[1], t[2]>>, Some(t[3])) :
                     t \in triples}
            ELSE {})

\* a first statement of size i followed by a block of size n - i
BlocksSplit(n, i, A) ==
    LET heads == StmtsOfSize(i, A)
        tails == BlocksOfSize(n - i, A)
    IN  {<<s>> \o b : s \in heads, b \in tails}

BlocksOfSize(n, A) ==
    IF n = 0 THEN {<<>>}
    ELSE UNION {BlocksSplit(n, i, A) : i \in 1..n}

BlocksUpTo(n, A) == UNION {BlocksOfSize(i, A) : i \in 0..n}

(***************************************************************************)
(* Source layout: the spans the parser attaches.  A leaf statement, a      *)
(* keyword and a brace take one byte each; a block is `{ stmts }`.         *)
(***************************************************************************)
RECURSIVE LayoutStmts(_, _), LayoutStmt(_, _), LayoutBlocks(_, _)
\* a block starting at byte s: the Spanned<Vec<Stmt>> and the byte after it
LayoutBlock(b, s) ==
    LET r == LayoutStmts(b, s + 1)
    IN  [node |-> Spanned(r.node, Span(s, r.end + 1)), end |-> r.end + 1]

\* blocks one after the other (the arms of a switch)
LayoutBlocks(bs, s) ==
    IF bs = <<>> THEN [node |-> <<>>, end |-> s]
    ELSE LET h == LayoutBlock(Head(bs), s)
             t == LayoutBlocks(Tail(bs), h.end)
         IN  [node |-> <<h.node>> \o t.node, end |-> t.end]

LayoutStmts(stmts, s) ==
    IF stmts = <<>> THEN [node |-> <<>>, end |-> s]
    ELSE LET h == LayoutStmt(Head(stmts), s)
             t == LayoutStmts(Tail(stmts), h.end)
         IN  [node |-> <<h.node>> \o t.node, end |-> t.end]

LayoutStmt(st, s) ==
    CASE st.k = "BlockStmt" ->
           LET b == LayoutBlock(st.body, s)
           IN  [node |-> [k |-> st.k, span |-> b.node.span, body |-> b.node.v],
                end |-> b.end]
      [] st.k = "IfStmt" ->
           LET t == LayoutBlock(st.then, s + 1)
               e == IF IsSome(st.then_else)
                    THEN LayoutBlock(Unwrap(st.then_else), t.end)
                    ELSE [node |-> <<>>, end |-> t.end]
           IN  [node |-> [k |-> st.k, span |-> Span(s, e.end), cond |-> st.cond,
                          then |-> t.node,
                          then_else |-> IF IsSome(st.then_else) THEN Some(e.node) ELSE None],
                end |-> e.end]
      [] st.k \in {"WhileStmt", "DoWhileStmt"} ->
           LET b == LayoutBlock(st.body, s + 1)
           IN  [node |-> [k |-> st.k, span |-> Span(s, b.end), cond |-> st.cond,
                          body |-> b.node],
                end |-> b.end]
      [] st.k = "ForStmt" ->
           LET b == LayoutBlock(st.body, s + 1)
           IN  [node |-> [k |-> st.k, span |-> Span(s, b.end), init |-> st.init,
                          cond |-> st.cond, post |-> st.post, body |-> b.node],
                end |-> b.end]
      [] st.k = "SwitchCase" ->
           LET c == LayoutBlocks(st.cases, s + 1)
               d == IF IsSome(st.default)
                    THEN LayoutBlock(Unwrap(st.default), c.end)
                    ELSE [node |-> <<>>, end |-> c.end]
           IN  [node |-> [k |-> st.k, span |-> Span(s, d.end),
                          scrutinee |-> st.scrutinee, cases |-> c.node,
                          default |-> IF IsSome(st.default) THEN Some(d.node) ELSE None],
                end |-> d.end]
      [] OTHER -> [node |-> st @@ [span |-> Span(s, s + 1)],
                   end |-> s + 1]

\* the function body / outermost block, laid out from byte 0
Parse(b) == LayoutBlock(b, 0).node

(***************************************************************************)
(* Type checker, expressions.                                              *)
(***************************************************************************)
\* Result<_, Diagnostic> of the statement walk.  `some` is FALSE for a
\* statement that leaves nothing in the TAST.
Diagnostic(kind, sp, expected, got) ==
    [kind |-> kind, span |-> sp, expected |-> expected, got |-> got]
NoDiagnostic == Diagnostic("", Span(0, 0), "", "")
Err(d) == [ok |-> FALSE, some |-> FALSE, stmt |-> [k |-> ""], act |-> "", diag |-> d]
OkSome(t, a) == [ok |-> TRUE, some |-> TRUE, stmt |-> t, act |-> a, diag |-> NoDiagnostic]
OkNone == [ok |-> TRUE, some |-> FALSE, stmt |-> [k |-> ""], act |-> "", diag |-> NoDiagnostic]
\* the panic! of type_block: an internal error, no Result at all
Panic == Diagnostic("PANIC", Span(0, 0), "", "")

\* TypedExpr { inferred_type, kind }
TypedExpr(ty, kind) == [inferred_type |-> ty, kind |-> kind]
\* the synthetic Cast node try_coerce_to wraps around a value
CastExpr(ty, x) == [inferred_type |-> ty, kind |-> "cast", of |-> x]

\* the typed identifier: the value of the variable `name`
IdentifierExpr(ty, name) == [inferred_type |-> ty, kind |-> "ident", name |-> name]

\* type_expr: an identifier carries the type the scope binds it to and is
\* rejected when the scope has no binding; every other expression of the
\* alphabet gets its declared type
type_expr(scope, x, sp) ==
    IF x.e = "ident"
    THEN IF IsSome(get(scope, x.name))
         THEN [ok |-> TRUE, diag |-> NoDiagnostic,
               expr |-> IdentifierExpr(Unwrap(get(scope, x.name)), x.name)]
         ELSE [ok |-> FALSE, diag |-> Diagnostic("IdentifierNotFound", sp, "", ""),
               expr |-> TypedExpr("?", "")]
    ELSE [ok |-> TRUE, diag |-> NoDiagnostic, expr |-> TypedExpr(x.ty, x.e)]

\* try_coerce_to: unchanged when the types match, else wrapped in a cast to
\* the target
try_coerce_to(x, ty) ==
    IF x.inferred_type = ty THEN x ELSE CastExpr(ty, x)

\* a condition: typed, and required to be bool
type_cond(scope, x, sp) ==
    LET r == type_expr(scope, x, sp)
    IN  IF ~r.ok THEN r
        ELSE IF r.expr.inferred_type # "Bool"
        THEN [ok |-> FALSE, expr |-> r.expr,
              diag |-> Diagnostic("ExpectedGot", sp, "bool", r.expr.inferred_type)]
        ELSE r

(***************************************************************************)
(* Type checker, statements: type_block and the helpers it dispatches to.  *)
(***************************************************************************)
\* Type::to_string, the spelling used in diagnostics
to_string(t) ==
    CASE t = "I32" -> "i32" [] t = "I8" -> "i8" [] t = "Bool" -> "bool"
      [] OTHER -> "unit"

\* Result of process_let_declaration: the scope with the bindings inserted
\* and the typed declarations
LetOk(scope, declarations) ==
    [ok |-> TRUE, scope |-> scope, declarations |-> declarations,
     diag |-> NoDiagnostic]
LetErr(scope, d) == [ok |-> FALSE, scope |-> scope, declarations |-> <<>>, diag |-> d]

\* declaration::process_let_declaration: each declaration's initial value is
\* typed in the scope so far and coerced to the declared type, then the
\* name is bound to the declared type
RECURSIVE process_let_declaration(_, _, _)
process_let_declaration(scope, declarations, sp) ==
    IF declarations = <<>> THEN LetOk(scope, <<>>)
    ELSE LET d == Head(declarations)
             v == IF IsSome(d.value) THEN type_expr(scope, Unwrap(d.value), sp)
                  ELSE [ok |-> TRUE, diag |-> NoDiagnostic, expr |-> TypedExpr(d.ty, "")]
             rest == process_let_declaration(insert(scope, d.name, d.ty),
                                             Tail(declarations), sp)
         IN  IF ~v.ok THEN LetErr(scope, v.diag)
             ELSE IF ~can_implicitly_cast_to(v.expr.inferred_type, d.ty)
             THEN LetErr(scope, Diagnostic("ExpectedGot", sp, to_string(d.ty),
                                           to_string(v.expr.inferred_type)))
             ELSE IF ~rest.ok THEN rest
             ELSE LetOk(rest.scope,
                        <<LetDeclaration(d.name, d.ty,
                                         IF IsSome(d.value)
                                         THEN Some(try_coerce_to(v.expr, d.ty))
                                         ELSE None)>> \o rest.declarations)

BlockErr(d) == [ok |-> FALSE, tast |-> <<>>, act |-> "", diag |-> d]
BlockOk(t, a) == [ok |-> TRUE, tast |-> t, act |-> a, diag |-> NoDiagnostic]
StmtsOk(t, a) == [ok |-> TRUE, tast |-> t, acts |-> a, diag |-> NoDiagnostic]
StmtsErr(d) == [ok |-> FALSE, tast |-> <<>>, acts |-> <<>>, diag |-> d]

\* the actuality of a sequence taken from its last statement alone
combine_actualities_last(acts) ==
    IF acts = <<>> THEN "NeverReturns" ELSE acts[Len(acts)]

\* step 4: the actuality of a sequence of statements from the actualities
\* of its statements (might_return / will_return)
combine_actualities(acts) ==
    LET might_return == \E i \in 1..Len(acts) :
                            acts[i] \in {"SometimesReturns", "AlwaysReturns"}
        will_return == \E i \in 1..Len(acts) : acts[i] = "AlwaysReturns"
    IN  IF will_return THEN "AlwaysReturns"
        ELSE IF might_return THEN "SometimesReturns"
        ELSE "NeverReturns"

\* the loop may run zero times: AlwaysReturns is lowered to SometimesReturns
downgrade(act) == IF act = "AlwaysReturns" THEN "SometimesReturns" ELSE act

\* a break / continue that is accepted wherever it stands
type_break_continue_unguarded(stmt, can_use_break_continue) ==
    OkSome([k |-> stmt.k, span |-> stmt.span], "NeverReturns")

\* the BreakStmt / ContinueStmt arms of type_block
type_break_continue(stmt, can_use_break_continue) ==
    IF can_use_break_continue
    THEN OkSome([k |-> stmt.k, span |-> stmt.span], "NeverReturns")
    ELSE Err(Diagnostic(IF stmt.k = "BreakStmt" THEN "CannotUseBreakOutsideOfLoop"
                        ELSE "CannotUseContinueOutsideOfLoop",
                        stmt.span, "", ""))

\* a return whose value is left as it is when it needs a cast
type_return_uncoerced(scope, stmt, ability) ==
    LET r == IF IsSome(stmt.value) THEN type_expr(scope, Unwrap(stmt.value), stmt.span)
             ELSE [ok |-> TRUE, diag |-> NoDiagnostic, expr |-> TypedExpr("Unit", "")]
        resolved_value == IF IsSome(stmt.value) THEN Some(r.expr) ELSE None
        inferred_return_type == r.expr.inferred_type
    IN  IF ~r.ok THEN Err(r.diag)
        ELSE IF ability.a = "MustNotReturn"
        THEN Err(Diagnostic("CannotReturnHere", stmt.span, "", ""))
        ELSE IF can_implicitly_cast_to(inferred_return_type, ability.ty)
        THEN OkSome([k |-> "ReturnStmt", span |-> stmt.span, value |-> resolved_value],
                    "AlwaysReturns")
        ELSE Err(Diagnostic("ExpectedGot", stmt.span, to_string(ability.ty),
                            to_string(inferred_return_type)))

\* the ReturnStmt arm of type_block
type_return(scope, stmt, ability) ==
    LET r == IF IsSome(stmt.value) THEN type_expr(scope, Unwrap(stmt.value), stmt.span)
             ELSE [ok |-> TRUE, diag |-> NoDiagnostic, expr |-> TypedExpr("Unit", "")]
        resolved_value == IF IsSome(stmt.value) THEN Some(r.expr) ELSE None
        inferred_return_type == r.expr.inferred_type
    IN  IF ~r.ok THEN Err(r.diag)
        ELSE IF ability.a = "MustNotReturn"
        THEN Err(Diagnostic("CannotReturnHere", stmt.span, "", ""))
        ELSE IF inferred_return_type = ability.ty
        THEN OkSome([k |-> "ReturnStmt", span |-> stmt.span, value |-> resolved_value],
                    "AlwaysReturns")
        ELSE IF can_implicitly_cast_to(inferred_return_type, ability.ty)
        THEN OkSome([k |-> "ReturnStmt", span |-> stmt.span,
                     value |-> IF IsSome(resolved_value)
                               THEN Some(try_coerce_to(Unwrap(resolved_value), ability.ty))
                               ELSE None],
                    "AlwaysReturns")
        ELSE Err(Diagnostic("ExpectedGot", stmt.span, to_string(ability.ty),
                            to_string(inferred_return_type)))

RECURSIVE type_block(_, _, _, _), type_stmt(_, _, _, _), type_stmts(_, _, _, _)

\* an if whose actuality without else is that of its then-branch
type_if_as_then(scope, stmt, can_use_break_continue, ability) ==
    LET c == type_cond(scope, stmt.cond, stmt.span)
        t == type_block(scope, stmt.then, can_use_break_continue, demote(ability))
        e == type_block(scope, Unwrap(stmt.then_else), can_use_break_continue,
                        demote(ability))
    IN  IF ~c.ok THEN Err(c.diag)
        ELSE IF ~t.ok THEN Err(t.diag)
        ELSE IF ~IsSome(stmt.then_else)
        THEN OkSome([k |-> "IfStmt", span |-> stmt.span, cond |-> c.expr,
                     then |-> Spanned(t.tast, stmt.then.span), then_else |-> None],
                    t.act)
        ELSE IF ~e.ok THEN Err(e.diag)
        ELSE OkSome([k |-> "IfStmt", span |-> stmt.span, cond |-> c.expr,
                     then |-> Spanned(t.tast, stmt.then.span),
                     then_else |-> Some(Spanned(e.tast, Unwrap(stmt.then_else).span))],
                    combine_actualities(<<t.act, e.act>>))

\* branch::type_if
type_if(scope, stmt, can_use_break_continue, ability) ==
    LET c == type_cond(scope, stmt.cond, stmt.span)
        t == type_block(scope, stmt.then, can_use_break_continue, demote(ability))
        e == type_block(scope, Unwrap(stmt.then_else), can_use_break_continue,
                        demote(ability))
    IN  IF ~c.ok THEN Err(c.diag)
        ELSE IF ~t.ok THEN Err(t.diag)
        ELSE IF ~IsSome(stmt.then_else)
        THEN OkSome([k |-> "IfStmt", span |-> stmt.span, cond |-> c.expr,
                     then |-> Spanned(t.tast, stmt.then.span), then_else |-> None],
                    IF t.act = "AlwaysReturns" THEN "SometimesReturns" ELSE t.act)
        ELSE IF ~e.ok THEN Err(e.diag)
        ELSE OkSome([k |-> "IfStmt", span |-> stmt.span, cond |-> c.expr,
                     then |-> Spanned(t.tast, stmt.then.span),
                     then_else |-> Some(Spanned(e.tast, Unwrap(stmt.then_else).span))],
                    combine_actualities(<<t.act, e.act>>))

\* a while whose actuality is that of its body
type_while_as_body(scope, stmt, ability) ==
    LET c == type_cond(scope, stmt.cond, stmt.span)
        b == type_block(scope, stmt.body, TRUE, demote(ability))
    IN  IF ~c.ok THEN Err(c.diag)
        ELSE IF ~b.ok THEN Err(b.diag)
        ELSE OkSome([k |-> "WhileStmt", span |-> stmt.span, cond |-> c.expr,
                     body |-> Spanned(b.tast, stmt.body.span)],
                    b.act)

\* loops::type_while
type_while(scope, stmt, ability) ==
    LET c == type_cond(scope, stmt.cond, stmt.span)
        b == type_block(scope, stmt.body, TRUE, demote(ability))
    IN  IF ~c.ok THEN Err(c.diag)
        ELSE IF ~b.ok THEN Err(b.diag)
        ELSE OkSome([k |-> "WhileStmt", span |-> stmt.span, cond |-> c.expr,
                     body |-> Spanned(b.tast, stmt.body.span)],
                    downgrade(b.act))

\* loops::type_do_while
type_do_while(scope, stmt, ability) ==
    LET b == type_block(scope, stmt.body, TRUE, demote(ability))
        c == type_cond(scope, stmt.cond, stmt.span)
    IN  IF ~b.ok THEN Err(b.diag)
        ELSE IF ~c.ok THEN Err(c.diag)
        ELSE OkSome([k |-> "DoWhileStmt", span |-> stmt.span,
                     body |-> Spanned(b.tast, stmt.body.span), cond |-> c.expr],
                    b.act)

\* loops::type_for, after `init` has been processed in the loop's sub-scope
type_for_in(scope, i, stmt, ability) ==
    LET c == IF IsSome(stmt.cond) THEN type_cond(scope, Unwrap(stmt.cond), stmt.span)
             ELSE [ok |-> TRUE, diag |-> NoDiagnostic, expr |-> TypedExpr("Bool", "")]
        p == IF IsSome(stmt.post) THEN type_expr(scope, Unwrap(stmt.post), stmt.span)
             ELSE [ok |-> TRUE, diag |-> NoDiagnostic, expr |-> TypedExpr("Unit", "")]
        b == type_block(scope, stmt.body, TRUE, demote(ability))
    IN  IF ~c.ok THEN Err(c.diag)
        ELSE IF ~p.ok THEN Err(p.diag)
        ELSE IF ~b.ok THEN Err(b.diag)
        ELSE OkSome([k |-> "ForStmt", span |-> stmt.span,
                     init |-> IF IsSome(stmt.init) THEN Some(i.declarations) ELSE None,
                     cond |-> IF IsSome(stmt.cond) THEN Some(c.expr) ELSE None,
                     post |-> IF IsSome(stmt.post) THEN Some(p.expr) ELSE None,
                     body |-> Spanned(b.tast, stmt.body.span)],
                    downgrade(b.act))

\* loops::type_for: `init` declares into a sub-scope of the loop, in which
\* cond, post and the body are checked
type_for(scope, stmt, ability) ==
    LET i == IF IsSome(stmt.init)
             THEN process_let_declaration(clone(scope), Unwrap(stmt.init), stmt.span)
             ELSE LetOk(clone(scope), <<>>)
    IN  IF ~i.ok THEN Err(i.diag) ELSE type_for_in(i.scope, i, stmt, ability)

\* switch_match::type_switch_case, the case arms in source order: the
\* checked arm c, of the given span, in front of the checked arms `rest`
type_switch_cases_arm(c, span, rest) ==
    IF ~c.ok THEN StmtsErr(c.diag)
    ELSE IF ~rest.ok THEN rest
    ELSE StmtsOk(<<Spanned(c.tast, span)>> \o rest.tast, <<c.act>> \o rest.acts)
RECURSIVE type_switch_cases(_, _, _)
type_switch_cases(scope, cases, ability) ==
    IF cases = <<>> THEN StmtsOk(<<>>, <<>>)
    ELSE type_switch_cases_arm(
           type_block(scope, Head(cases), FALSE, demote(ability)),
           Head(cases).span,
           type_switch_cases(scope, Tail(cases), ability))

\* a switch whose actuality is that of a block holding its arms
type_switch_case_as_block(scope, stmt, ability) ==
    LET s == type_expr(scope, stmt.scrutinee, stmt.span)
        c == type_switch_cases(scope, stmt.cases, ability)
        d == type_block(scope, Unwrap(stmt.default), FALSE, demote(ability))
        has_default == IsSome(stmt.default)
        acts == c.acts \o (IF has_default THEN <<d.act>> ELSE <<>>)
    IN  IF ~s.ok THEN Err(s.diag)
        ELSE IF ~c.ok THEN Err(c.diag)
        ELSE IF has_default /\ ~d.ok THEN Err(d.diag)
        ELSE OkSome([k |-> "SwitchCase", span |-> stmt.span, scrutinee |-> s.expr,
                     cases |-> c.tast,
                     default |-> IF has_default
                                 THEN Some(Spanned(d.tast, Unwrap(stmt.default).span))
                                 ELSE None],
                    combine_actualities(acts))

\* the actuality of a switch from the actualities of its arms
switch_actuality(acts, has_default) ==
    IF has_default /\ \A i \in 1..Len(acts) : acts[i] = "AlwaysReturns"
    THEN "AlwaysReturns"
    ELSE IF \A i \in 1..Len(acts) : acts[i] = "NeverReturns" THEN "NeverReturns"
    ELSE "SometimesReturns"
\* the switch from its checked scrutinee s, cases c and default d
type_switch_case_arms(stmt, s, c, d) ==
    IF ~s.ok THEN Err(s.diag)
    ELSE IF ~c.ok THEN Err(c.diag)
    ELSE IF IsSome(stmt.default) /\ ~d.ok THEN Err(d.diag)
    ELSE OkSome([k |-> "SwitchCase", span |-> stmt.span, scrutinee |-> s.expr,
                 cases |-> c.tast,
                 default |-> IF IsSome(stmt.default)
                             THEN Some(Spanned(d.tast, Unwrap(stmt.default).span))
                             ELSE None],
                switch_actuality(c.acts \o (IF IsSome(stmt.default) THEN <<d.act>>
                                            ELSE <<>>),
                                 IsSome(stmt.default)))
\* switch_match::type_switch_case (case arms and an optional default)
type_switch_case(scope, stmt, ability) ==
    type_switch_case_arms(
      stmt,
      type_expr(scope, stmt.scrutinee, stmt.span),
      type_switch_cases(scope, stmt.cases, ability),
      IF IsSome(stmt.default)
      THEN type_block(scope, Unwrap(stmt.default), FALSE, demote(ability))
      ELSE BlockOk(<<>>, "NeverReturns"))

\* the match over StmtKind inside type_block's closure
type_stmt(scope, stmt, can_use_break_continue, ability) ==
    CASE stmt.k = "EmptyStmt" -> OkNone
      [] stmt.k \in {"BreakStmt", "ContinueStmt"} ->
           type_break_continue(stmt, can_use_break_continue)
      [] stmt.k = "SwitchCase" -> type_switch_case(scope, stmt, ability)
      [] stmt.k = "UnreachableStmt" ->
           OkSome([k |-> "UnreachableStmt", span |-> stmt.span], "AlwaysReturns")
      [] stmt.k = "DeclarationList" ->
           LET r == process_let_declaration(scope, stmt.declarations, stmt.span)
           IN  IF ~r.ok THEN Err(r.diag)
               ELSE OkSome([k |-> "DeclarationList", span |-> stmt.span,
                            declarations |-> r.declarations],
                           "NeverReturns")
      [] stmt.k = "IfStmt" -> type_if(scope, stmt, can_use_break_continue, ability)
      [] stmt.k = "WhileStmt" -> type_while(scope, stmt, ability)
      [] stmt.k = "DoWhileStmt" -> type_do_while(scope, stmt, ability)
      [] stmt.k = "ForStmt" -> type_for(scope, stmt, ability)
      [] stmt.k = "BlockStmt" ->
           LET r == type_block(scope, Spanned(stmt.body, stmt.span),
                               can_use_break_continue, demote(ability))
           IN  IF ~r.ok THEN Err(r.diag)
               ELSE OkSome([k |-> "BlockStmt", span |-> stmt.span, body |-> r.tast],
                           r.act)
      [] stmt.k = "ExprStmt" ->
           LET r == type_expr(scope, stmt.expr, stmt.span)
           IN  IF ~r.ok THEN Err(r.diag)
               ELSE OkSome([k |-> "ExprStmt", span |-> stmt.span, expr |-> r.expr],
                           "NeverReturns")
      [] stmt.k = "ReturnStmt" -> type_return(scope, stmt, ability)

\* the block's scope after a statement, with the bindings of nested blocks
\* and loops added to it
RECURSIVE scope_after_leaking(_, _)
scope_after_leaking(scope, stmt) ==
    CASE stmt.k = "DeclarationList" ->
           process_let_declaration(scope, stmt.declarations, stmt.span).scope
      [] stmt.k = "BlockStmt" /\ stmt.body # <<>> ->
           scope_after_leaking(scope, stmt.body[1])
      [] stmt.k = "ForStmt" /\ IsSome(stmt.init) ->
           process_let_declaration(scope, Unwrap(stmt.init), stmt.span).scope
      [] OTHER -> scope

\* the block's own `scope` after a statement: only the DeclarationList arm
\* holds it mutably, every other arm lends it out immutably
scope_after(scope, stmt) ==
    IF stmt.k = "DeclarationList"
    THEN process_let_declaration(scope, stmt.declarations, stmt.span).scope
    ELSE scope

\* a walk that reports the error of the later statements before that of
\* the first
type_stmts_tail_first(scope, stmts, can_use_break_continue, ability) ==
    IF stmts = <<>> THEN StmtsOk(<<>>, <<>>)
    ELSE LET h == type_stmt(scope, Head(stmts), can_use_break_continue, ability)
             t == type_stmts(scope_after(scope, Head(stmts)), Tail(stmts),
                             can_use_break_continue, ability)
         IN  IF ~t.ok THEN t
             ELSE IF ~h.ok THEN StmtsErr(h.diag)
             ELSE IF h.some THEN StmtsOk(<<h.stmt>> \o t.tast, <<h.act>> \o t.acts)
             ELSE t

\* the filter_map / collect over the statements: the first Err ends the walk
type_stmts(scope, stmts, can_use_break_continue, ability) ==
    IF stmts = <<>> THEN StmtsOk(<<>>, <<>>)
    ELSE LET h == type_stmt(scope, Head(stmts), can_use_break_continue, ability)
             t == type_stmts(scope_after(scope, Head(stmts)), Tail(stmts),
                             can_use_break_continue, ability)
         IN  IF ~h.ok THEN StmtsErr(h.diag)
             ELSE IF ~t.ok THEN t
             ELSE IF h.some THEN StmtsOk(<<h.stmt>> \o t.tast, <<h.act>> \o t.acts)
             ELSE t

\* an implicit `return;` placed one byte too far
implicit_return_span_past_end(input_block_span) ==
    Span(SpanEnd(input_block_span), SpanEnd(input_block_span) + 1)

\* a MustReturn block that is let through like a MayReturn block
reconcile_must_as_may(tast_block, input_block_span, return_ability, return_actuality) ==
    CASE /\ return_ability.a = "MustNotReturn"
         /\ return_actuality # "NeverReturns" ->
           BlockErr(Panic)
      [] /\ return_ability.a = "MustReturn"
         /\ return_actuality \in {"SometimesReturns", "NeverReturns"}
         /\ return_ability.ty = "Unit" ->
           BlockOk(Append(tast_block,
                          [k |-> "ReturnStmt",
                           span |-> Span(SpanEnd(input_block_span) - 1,
                                         SpanEnd(input_block_span)),
                           value |-> None]),
                   "AlwaysReturns")
      [] OTHER -> BlockOk(tast_block, return_actuality)

\* the span of the implicit `return;`: the last byte of the block
implicit_return_span(input_block_span) ==
    Span(SpanEnd(input_block_span) - 1, SpanEnd(input_block_span))

\* the final match (return_ability, return_actuality) of type_block
reconcile(tast_block, input_block_span, return_ability, return_actuality) ==
    CASE /\ return_ability.a \in {"MustNotReturn", "MayReturn"}
         /\ return_actuality = "NeverReturns" ->
           BlockOk(tast_block, "NeverReturns")
      [] /\ return_ability.a = "MayReturn"
         /\ return_actuality = "SometimesReturns" ->
           BlockOk(tast_block, "SometimesReturns")
      [] /\ return_ability.a \in {"MustReturn", "MayReturn"}
         /\ return_actuality = "AlwaysReturns" ->
           BlockOk(tast_block, "AlwaysReturns")
      [] /\ return_ability.a = "MustReturn"
         /\ return_actuality \in {"SometimesReturns", "NeverReturns"}
         /\ return_ability.ty = "Unit" ->
           BlockOk(Append(tast_block,
                          [k |-> "ReturnStmt",
                           span |-> implicit_return_span(input_block_span),
                           value |-> None]),
                   "AlwaysReturns")
      [] /\ return_ability.a = "MustReturn"
         /\ return_actuality \in {"SometimesReturns", "NeverReturns"}
         /\ return_ability.ty # "Unit" ->
           BlockErr(Diagnostic("ExpectedABlockToReturn", input_block_span, "", ""))
      [] /\ return_ability.a = "MustNotReturn"
         /\ return_actuality \in {"SometimesReturns", "AlwaysReturns"} ->
           BlockErr(Panic)

type_block(parent_scope, input_block, can_use_break_continue, return_ability) ==
    LET r == type_stmts(clone(parent_scope), input_block.v, can_use_break_continue,
                        return_ability)
    IN  IF ~r.ok THEN BlockErr(r.diag)
        ELSE reconcile(r.tast, input_block.span, return_ability,
                       combine_actualities(r.acts))

(***************************************************************************)
(* Code generator: the IR builder.  A function is a sequence of basic      *)
(* blocks, a BasicBlock is an index into it, and the builder appends at    *)
(* the end of the block it is positioned at.                               *)
(*                                                                         *)
(* An instruction records, beside its opcode and branch targets, the       *)
(* statement whose lowering emitted it (`at`, a span) and in which role.   *)
(* `loops` records for each loop statement the blocks its lowering         *)
(* created.  Both are bookkeeping for stating properties; no rule of the   *)
(* code generator reads them.                                              *)
(***************************************************************************)
Terminators == {"br", "condbr", "switch", "ret", "unreachable"}

Instr(op, targets, role, at) ==
    [op |-> op, targets |-> targets, role |-> role, at |-> at]

\* `scope` is the CgScope in force: a block works on a clone of its parent's
\* scope, so the parent's is in force again when the block is left
NewFunction ==
    [blocks |-> <<[name |-> "entry", instrs |-> <<>>]>>, pos |-> 1,
     loops |-> {}, panic |-> FALSE, scope |-> EmptyScope]

\* Context::append_basic_block; the new block is LastBlock of the result
append_basic_block(B, name) ==
    [B EXCEPT !.blocks = Append(@, [name |-> name, instrs |-> <<>>])]
LastBlock(B) == Len(B.blocks)

\* Builder::position_at_end
position_at_end(B, bb) == [B EXCEPT !.pos = bb]

\* Builder::build_*: append at the current position
build(B, instr) ==
    [B EXCEPT !.blocks[B.pos].instrs = Append(@, instr)]

build_unconditional_branch(B, dest, role, at) ==
    build(B, Instr("br", <<dest>>, role, at))
build_conditional_branch(B, then_bb, else_bb, role, at) ==
    build(B, Instr("condbr", <<then_bb, else_bb>>, role, at))

\* BasicBlockAnd<V> without the value; Option<BasicBlock> is 0 for None
NoBlock == 0
BasicBlockAnd(B, bb) == [B |-> B, bb |-> bb]

(***************************************************************************)
(* Values.  A pointer or integer value is the stack slot of a variable, a  *)
(* constant, or the result of an instruction; instructions are numbered    *)
(* in emission order, so two loads of one address are two values.          *)
(***************************************************************************)
Slot(x) == [v |-> "slot", of |-> x]
Const == [v |-> "const", of |-> ""]
Reg(n) == [v |-> "reg", of |-> n]
NoValue == [v |-> "none", of |-> ""]

RECURSIVE SumLen(_, _)
SumLen(blocks, i) ==
    IF i > Len(blocks) THEN 0 ELSE Len(blocks[i].instrs) + SumLen(blocks, i + 1)
\* the number of the next instruction
NextReg(B) == SumLen(B.blocks, 1) + 1

\* an instruction with operands and a result
ValueInstrAt(op, args, res, role, at) ==
    [op |-> op, targets |-> <<>>, role |-> role, at |-> at,
     args |-> args, res |-> res]
ValueInstr(op, args, res) == ValueInstrAt(op, args, res, "value", Span(0, 0))
\* Type::const_zero: the zero value of a type
const_zero(ty) == [v |-> "zero", of |-> ty]
\* Builder::build_return(value): `ret` with an operand, `ret void` for None
build_return(B, value, at) ==
    build(B, [op |-> "ret", targets |-> <<>>, role |-> "return", at |-> at,
              args |-> value])
BasicBlockAndValue(B, bb, val) == [B |-> B, bb |-> bb, value |-> val]

\* Place { inferred_type, kind }
VariablePlace(x) == [kind |-> "Variable", inferred_type |-> "Other", name |-> x]
DerefPlace(x) == [kind |-> "Deref", inferred_type |-> "Other", x |-> x]
IndexPlace(ptr, idx) ==
    [kind |-> "Index", inferred_type |-> "Other", ptr |-> ptr, idx |-> idx]
\* x.prop, where x is of the aggregate type agg ("Struct" or "Union")
DotPlace(x, agg, prop) ==
    [kind |-> "Dot", inferred_type |-> "Other",
     x |-> [x EXCEPT !.inferred_type = agg], prop |-> prop]
\* the fields of the struct / union type of the alphabet, in declaration order
Fields == <<"x", "y">>
\* contents.iter().position(..): the ordinal of a field, from 0
position(contents, prop) ==
    (CHOOSE i \in 1..Len(contents) : contents[i] = prop) - 1

\* expressions over places: a literal, the value of a place, `&place`
ConstExpr == [kind |-> "const", inferred_type |-> "Other"]
ReadExpr(pl_) == [kind |-> "read", inferred_type |-> "Other", place |-> pl_]
AddrOfExpr(pl_) == [kind |-> "addr", inferred_type |-> "Other", place |-> pl_]

(***************************************************************************)
(* cg_expr on the expressions of the alphabet.  A call is one instruction  *)
(* in the current block.  A short-circuit `a() && b()` is a diamond: the   *)
(* current block evaluates a() and branches to `rhs` or `end`, `rhs`       *)
(* evaluates b() and branches to `end`, `end` holds the phi and is the     *)
(* block returned.  The value of a place is a load from its address;       *)
(* `&place` is its address.                                                *)
(***************************************************************************)
RECURSIVE cg_expr(_, _, _, _), cg_place(_, _, _), cg_place_loading(_, _, _)

\* Builder::build_load through the pointer r.value, after r
build_load(r, at) ==
    BasicBlockAndValue(
      build(r.B, ValueInstrAt("load", <<r.value>>, Reg(NextReg(r.B)), "value", at)),
      r.bb, Reg(NextReg(r.B)))
\* Builder::build_gep on a pointer value, after the index idx
build_gep(ptr, idx) ==
    BasicBlockAndValue(
      build(idx.B, ValueInstr("gep", <<ptr, idx.value>>, Reg(NextReg(idx.B)))),
      idx.bb, Reg(NextReg(idx.B)))
\* Builder::build_struct_gep on the pointer x.value, after x
build_struct_gep(x, prop_idx) ==
    BasicBlockAndValue(
      build(x.B, ValueInstr("struct_gep", <<x.value, prop_idx>>, Reg(NextReg(x.B)))),
      x.bb, Reg(NextReg(x.B)))
\* the conversion of the value r to another type
build_cast(r, at) ==
    BasicBlockAndValue(build(r.B, Instr("cast", <<>>, "expr", at)), r.bb,
                       Reg(NextReg(r.B)))

cg_expr(B, bb, x, at) ==
    CASE x.kind = "logical" ->
           LET B1 == build(B, Instr("call", <<>>, "expr", at))
               B2 == append_basic_block(B1, "rhs")
               rhs == LastBlock(B2)
               B3 == append_basic_block(B2, "end")
               end == LastBlock(B3)
               B4 == build_conditional_branch(B3, rhs, end, "expr", at)
               B5 == build(position_at_end(B4, rhs), Instr("call", <<>>, "expr", at))
               B6 == build_unconditional_branch(B5, end, "expr", at)
               B7 == build(position_at_end(B6, end), Instr("phi", <<>>, "expr", at))
           IN  BasicBlockAndValue(B7, end, Reg(NextReg(B7) - 1))
      [] x.kind = "cast" ->
           AndThen(cg_expr(B, bb, x.of, at), LAMBDA r : build_cast(r, at))
      [] x.kind = "const" -> BasicBlockAndValue(B, bb, Const)
      [] x.kind = "read" ->
           AndThen(cg_place(B, bb, x.place), LAMBDA r : build_load(r, at))
      \* an identifier: a load from the variable's stack slot
      [] x.kind = "ident" ->
           AndThen(cg_place(B, bb, VariablePlace(x.name)),
                   LAMBDA r : build_load(r, at))
      [] x.kind = "addr" -> cg_place(B, bb, x.place)
      [] OTHER -> BasicBlockAndValue(build(B, Instr("call", <<>>, "expr", at)), bb,
                                     Reg(NextReg(B)))

(***************************************************************************)
(* expr::place::cg_place: resolve a place to its pointer.                  *)
(***************************************************************************)
\* the Index arm after `ptr` has been evaluated
cg_place_index_idx(ptr, place) ==
    AndThen(cg_expr(ptr.B, ptr.bb, place.idx, Span(0, 0)),
            LAMBDA idx : build_gep(ptr.value, idx))
\* the Index arm
cg_place_index(B, bb, place) ==
    AndThen(cg_expr(B, bb, place.ptr, Span(0, 0)),
            LAMBDA ptr : cg_place_index_idx(ptr, place))

\* the Variable arm: cg.scope.get(x), the pointer the scope binds x to; the
\* `expect` on a missing binding is the internal error
cg_place_variable(B, bb, x) ==
    IF IsSome(get(B.scope, x))
    THEN BasicBlockAndValue(B, bb, Unwrap(get(B.scope, x)))
    ELSE BasicBlockAndValue([B EXCEPT !.panic = TRUE], bb, NoValue)

\* a union Dot arm that computes a field address as a struct Dot does
cg_place_union_gep(B, bb, place) ==
    CASE place.kind = "Variable" -> cg_place_variable(B, bb, place.name)
      [] place.kind = "Deref" -> cg_expr(B, bb, place.x, Span(0, 0))
      [] place.kind = "Index" -> cg_place_index(B, bb, place)
      [] place.kind = "Dot" /\ place.x.inferred_type \in {"Struct", "Union"} ->
           AndThen(cg_place(B, bb, place.x),
                   LAMBDA x : build_struct_gep(x, position(Fields, place.prop)))
      [] OTHER -> BasicBlockAndValue([B EXCEPT !.panic = TRUE], bb, NoValue)

\* a Deref arm that loads through the pointer it has computed
cg_place_loading(B, bb, place) ==
    CASE place.kind = "Variable" -> cg_place_variable(B, bb, place.name)
      [] place.kind = "Deref" ->
           LET r == cg_expr(B, bb, place.x, Span(0, 0))
           IN  BasicBlockAndValue(build_load(r, Span(0, 0)).B, r.bb, r.value)
      [] place.kind = "Index" -> cg_place_index(B, bb, place)
      [] place.kind = "Dot" /\ place.x.inferred_type = "Struct" ->
           AndThen(cg_place_loading(B, bb, place.x),
                   LAMBDA x : build_struct_gep(x, position(Fields, place.prop)))
      [] place.kind = "Dot" /\ place.x.inferred_type = "Union" ->
           cg_place_loading(B, bb, place.x)
      [] OTHER -> BasicBlockAndValue([B EXCEPT !.panic = TRUE], bb, NoValue)

cg_place(B, bb, place) ==
    CASE place.kind = "Variable" -> cg_place_variable(B, bb, place.name)
      [] place.kind = "Deref" -> cg_expr(B, bb, place.x, Span(0, 0))
      [] place.kind = "Index" -> cg_place_index(B, bb, place)
      [] place.kind = "Dot" /\ place.x.inferred_type = "Struct" ->
           AndThen(cg_place(B, bb, place.x),
                   LAMBDA x : build_struct_gep(x, position(Fields, place.prop)))
      [] place.kind = "Dot" /\ place.x.inferred_type = "Union" ->
           cg_place(B, bb, place.x)
      \* panic!("cannot access property of non-struct")
      [] OTHER -> BasicBlockAndValue([B EXCEPT !.panic = TRUE], bb, NoValue)

\* Builder::build_alloca at the start of the function's entry block
build_alloca(B, at) ==
    [B EXCEPT !.blocks[1].instrs =
        <<ValueInstrAt("alloca", <<>>, Reg(NextReg(B)), "init", at)>> \o @]
\* Builder::build_store of the value v.value through ptr, after v
build_store(v, ptr, at) ==
    BasicBlockAnd(build(v.B, ValueInstrAt("store", <<v.value, ptr>>, NoValue, "init", at)),
                  v.bb)
\* the scope's insertion of a declared name, bound to its stack slot
cg_let_insert(r, name, ptr) ==
    BasicBlockAnd([r.B EXCEPT !.scope = insert(@, name, ptr)], r.bb)

\* let_decl::cg_let_declaration: for each declaration an alloca in the
\* function's entry block, the store of the initial value in the current
\* block when there is one, and the binding of the name to the slot
RECURSIVE cg_let_declaration(_, _, _, _)
cg_let_declaration_rest(r, declarations, at) ==
    cg_let_declaration(r.B, r.bb, declarations, at)
cg_let_declaration_one(B, bb, ptr, d, at) ==
    AndThen(IF IsSome(d.value)
            THEN AndThen(cg_expr(build_alloca(B, at), bb, Unwrap(d.value), at),
                         LAMBDA v : build_store(v, ptr, at))
            ELSE BasicBlockAnd(build_alloca(B, at), bb),
            LAMBDA r : cg_let_insert(r, d.name, ptr))
cg_let_declaration(B, bb, declarations, at) ==
    IF declarations = <<>> THEN BasicBlockAnd(B, bb)
    ELSE AndThen(cg_let_declaration_one(B, bb, Reg(NextReg(B)), Head(declarations), at),
                 LAMBDA r : cg_let_declaration_rest(r, Tail(declarations), at))

\* LoopBreakaway { on_break, on_continue }
LoopBreakaway(on_break, on_continue) ==
    [on_break |-> on_break, on_continue |-> on_continue]

\* the blocks a loop statement's lowering created
LoopRecord(kind, at, pre, header, cond_end, body, latch, exit) ==
    [kind |-> kind, at |-> at, pre |-> pre, header |-> header,
     cond_end |-> cond_end, body |-> body, latch |-> latch, exit |-> exit]
record_loop(B, rec) == [B EXCEPT !.loops = @ \cup {rec}]

(***************************************************************************)
(* Code generator, statements: cg_block and the loop / branch / switch     *)
(* helpers.  Each returns the builder and the block in which the next      *)
(* statement is emitted, NoBlock when control does not fall through.  A    *)
(* helper is written as the sequence of its steps: each step takes what    *)
(* the call before it (cg_expr, cg_block) returned.                        *)
(***************************************************************************)
RECURSIVE cg_block(_, _, _, _), cg_stmts(_, _, _, _), cg_stmt(_, _, _, _)

\* the end of a function that works on `parent_scope.clone()`: the clone is
\* dropped, the caller goes on with its own scope
drop_scope(r, parent_scope) ==
    BasicBlockAnd([r.B EXCEPT !.scope = parent_scope], r.bb)

\* `if let Some(bb) = r { build_unconditional_branch(dest) }`: the branch
\* that follows a block whose control falls through
branch_if_open(r, dest, role, at) ==
    IF r.bb # NoBlock THEN build_unconditional_branch(r.B, dest, role, at) ELSE r.B

\* break and continue with each other's target
cg_break_continue_swapped(B, stmt, breakaway) ==
    IF ~IsSome(breakaway)
    THEN BasicBlockAnd([B EXCEPT !.panic = TRUE], NoBlock)
    ELSE BasicBlockAnd(
           build_unconditional_branch(
               B,
               IF stmt.k = "ContinueStmt" THEN Unwrap(breakaway).on_break
               ELSE Unwrap(breakaway).on_continue,
               IF stmt.k = "ContinueStmt" THEN "continue" ELSE "break",
               stmt.span),
           NoBlock)

\* the ContinueStmt / BreakStmt arms of cg_block; the `expect` on a missing
\* breakaway is the internal error
cg_break_continue(B, stmt, breakaway) ==
    IF ~IsSome(breakaway)
    THEN BasicBlockAnd([B EXCEPT !.panic = TRUE], NoBlock)
    ELSE BasicBlockAnd(
           build_unconditional_branch(
               B,
               IF stmt.k = "ContinueStmt" THEN Unwrap(breakaway).on_continue
               ELSE Unwrap(breakaway).on_break,
               IF stmt.k = "ContinueStmt" THEN "continue" ELSE "break",
               stmt.span),
           NoBlock)

\* loops::cg_for_stmt, the latch's branch to `header` and the exit: B10 is
\* the builder after `post`
cg_for_stmt_exit(B10, pre, header_block, header, body_bb, latch, exit, stmt) ==
    BasicBlockAnd(
      record_loop(
        position_at_end(build_unconditional_branch(B10, header, "latch", stmt.span),
                        exit),
        LoopRecord(stmt.k, stmt.span, pre, header_block, header, body_bb, latch, exit)),
      exit)

\* loops::cg_for_stmt, after the body b: the fall-through to the latch,
\* then `post` in the latch
cg_for_stmt_latch(b, pre, header_block, header, body_bb, latch, exit, stmt) ==
    AndThen(
      IF IsSome(stmt.post)
      THEN cg_expr(position_at_end(branch_if_open(b, latch, "fall", stmt.span), latch),
                   latch, Unwrap(stmt.post), stmt.span).B
      ELSE position_at_end(branch_if_open(b, latch, "fall", stmt.span), latch),
      LAMBDA B10 : cg_for_stmt_exit(B10, pre, header_block, header, body_bb, latch,
                                    exit, stmt))

\* loops::cg_for_stmt, the body.  c is the header as generated; c.bb is the
\* value `let header = cond.map_or_else(..)` binds, the block the condition
\* ends in, and `header` means that block from here on
cg_for_stmt_body(c, pre, header_block, body_bb, latch, exit, stmt) ==
    AndThen(
      cg_block(position_at_end(c.B, body_bb), body_bb, stmt.body,
               Some(LoopBreakaway(exit, latch))),
      LAMBDA b : cg_for_stmt_latch(b, pre, header_block, c.bb, body_bb, latch, exit,
                                   stmt))

\* loops::cg_for_stmt, the conditional branch that ends the condition r
cg_for_stmt_cond(r, body_bb, exit, at) ==
    BasicBlockAnd(build_conditional_branch(r.B, body_bb, exit, "cond", at), r.bb)

\* loops::cg_for_stmt, from the preheader B0 (after `init`) to the header
cg_for_stmt_header(B0, stmt) ==
    LET at == stmt.span
        B1 == append_basic_block(B0, "header")
        header == LastBlock(B1)
        B2 == append_basic_block(B1, "body")
        body_bb == LastBlock(B2)
        B3 == append_basic_block(B2, "latch")
        latch == LastBlock(B3)
        B4 == append_basic_block(B3, "exit")
        exit == LastBlock(B4)
        B5 == build_unconditional_branch(B4, header, "pre", at)
        B6 == position_at_end(B5, header)
    IN  AndThen(
          IF ~IsSome(stmt.cond)
          THEN BasicBlockAnd(build_unconditional_branch(B6, body_bb, "cond", at),
                             header)
          ELSE AndThen(cg_expr(B6, header, Unwrap(stmt.cond), at),
                       LAMBDA r : cg_for_stmt_cond(r, body_bb, exit, at)),
          LAMBDA c : cg_for_stmt_body(c, B0.pos, header, body_bb, latch, exit, stmt))

\* loops::cg_for_stmt in the loop's implicit subscope: `init`, then the loop
cg_for_stmt_init(B, bb, stmt) ==
    AndThen(IF IsSome(stmt.init)
            THEN cg_let_declaration(B, bb, Unwrap(stmt.init), stmt.span).B ELSE B,
            LAMBDA B0 : cg_for_stmt_header(B0, stmt))

\* loops::cg_for_stmt: the subscope is a clone, which is dropped at the end
cg_for_stmt(B, bb, stmt) ==
    AndThen(cg_for_stmt_init(B, bb, stmt), LAMBDA r : drop_scope(r, B.scope))

\* loops::cg_while_stmt, after the body b: the fall-through branch to
\* `header` and the exit
cg_while_stmt_exit(b, pre, header_block, header, body_bb, exit, stmt) ==
    BasicBlockAnd(
      record_loop(
        position_at_end(branch_if_open(b, header, "fall", stmt.span), exit),
        LoopRecord(stmt.k, stmt.span, pre, header_block, header, body_bb, NoBlock,
                   exit)),
      exit)

\* loops::cg_while_stmt, after `unpack!(header = cg_expr(..))`: c.bb is the
\* block the condition ends in, and `header` names that block from here on
cg_while_stmt_body(c, pre, header_block, body_bb, exit, stmt) ==
    AndThen(
      cg_block(
        position_at_end(
          build_conditional_branch(c.B, body_bb, exit, "cond", stmt.span), body_bb),
        body_bb, stmt.body, Some(LoopBreakaway(exit, c.bb))),
      LAMBDA b : cg_while_stmt_exit(b, pre, header_block, c.bb, body_bb, exit, stmt))

\* loops::cg_while_stmt
cg_while_stmt(B, stmt) ==
    LET at == stmt.span
        B1 == append_basic_block(B, "header")
        header == LastBlock(B1)
        B2 == append_basic_block(B1, "body")
        body_bb == LastBlock(B2)
        B3 == append_basic_block(B2, "exit")
        exit == LastBlock(B3)
        B4 == build_unconditional_branch(B3, header, "pre", at)
        B5 == position_at_end(B4, header)
    IN  AndThen(cg_expr(B5, header, stmt.cond, at),
                LAMBDA c : cg_while_stmt_body(c, B.pos, header, body_bb, exit, stmt))

\* loops::cg_do_while_stmt, the conditional branch that ends the condition
\* c, and the exit
cg_do_while_stmt_exit(c, pre, body_start, header, exit, stmt) ==
    BasicBlockAnd(
      record_loop(
        position_at_end(
          build_conditional_branch(c.B, body_start, exit, "cond", stmt.span), exit),
        LoopRecord(stmt.k, stmt.span, pre, header, c.bb, body_start, NoBlock, exit)),
      exit)

\* loops::cg_do_while_stmt, after the body b: the fall-through branch to the
\* header, where the condition is generated
cg_do_while_stmt_header(b, pre, body_start, header, exit, stmt) ==
    AndThen(
      cg_expr(position_at_end(branch_if_open(b, header, "fall", stmt.span), header),
              header, stmt.cond, stmt.span),
      LAMBDA c : cg_do_while_stmt_exit(c, pre, body_start, header, exit, stmt))

\* a do-while entered at its condition, as a while is
cg_do_while_stmt_header_first(B, stmt) ==
    LET at == stmt.span
        B1 == append_basic_block(B, "body")
        body_start == LastBlock(B1)
        B2 == append_basic_block(B1, "header")
        header == LastBlock(B2)
        B3 == append_basic_block(B2, "exit")
        exit == LastBlock(B3)
        B4 == build_unconditional_branch(B3, header, "pre", at)
        B5 == position_at_end(B4, body_start)
    IN  AndThen(
          cg_block(B5, body_start, stmt.body, Some(LoopBreakaway(exit, header))),
          LAMBDA b : cg_do_while_stmt_header(b, B.pos, body_start, header, exit, stmt))

\* loops::cg_do_while_stmt
cg_do_while_stmt(B, stmt) ==
    LET at == stmt.span
        B1 == append_basic_block(B, "body")
        body_start == LastBlock(B1)
        B2 == append_basic_block(B1, "header")
        header == LastBlock(B2)
        B3 == append_basic_block(B2, "exit")
        exit == LastBlock(B3)
        B4 == build_unconditional_branch(B3, body_start, "pre", at)
        B5 == position_at_end(B4, body_start)
    IN  AndThen(
          cg_block(B5, body_start, stmt.body, Some(LoopBreakaway(exit, header))),
          LAMBDA b : cg_do_while_stmt_header(b, B.pos, body_start, header, exit, stmt))

\* branch::cg_if_stmt with an else, after both branches: no merge block when
\* neither falls through, else one that each open branch end branches to
cg_if_stmt_merge(then_end, e, at) ==
    IF then_end = NoBlock /\ e.bb = NoBlock
    THEN BasicBlockAnd(e.B, NoBlock)
    ELSE LET B4 == append_basic_block(e.B, "merge")
             merge == LastBlock(B4)
             B5 == IF then_end # NoBlock
                   THEN build_unconditional_branch(
                          position_at_end(B4, then_end), merge, "merge", at)
                   ELSE B4
             B6 == IF e.bb # NoBlock
                   THEN build_unconditional_branch(
                          position_at_end(B5, e.bb), merge, "merge", at)
                   ELSE B5
         IN  BasicBlockAnd(position_at_end(B6, merge), merge)

\* branch::cg_if_stmt with an else, after the then branch t
cg_if_stmt_else(t, else_bb, stmt, breakaway) ==
    AndThen(
      cg_block(position_at_end(t.B, else_bb), else_bb, Unwrap(stmt.then_else),
               breakaway),
      LAMBDA e : cg_if_stmt_merge(t.bb, e, stmt.span))

\* branch::cg_if_stmt without an else, after the then branch t
cg_if_stmt_then_only(t, merge, at) ==
    BasicBlockAnd(position_at_end(branch_if_open(t, merge, "merge", at), merge), merge)

\* branch::cg_if_stmt, after the condition c
cg_if_stmt_branches(c, stmt, breakaway) ==
    LET at == stmt.span
        B1 == append_basic_block(c.B, "then")
        then_bb == LastBlock(B1)
    IN  IF ~IsSome(stmt.then_else)
        THEN LET B2 == append_basic_block(B1, "merge")
                 merge == LastBlock(B2)
                 B3 == build_conditional_branch(B2, then_bb, merge, "if", at)
             IN  AndThen(
                   cg_block(position_at_end(B3, then_bb), then_bb, stmt.then,
                            breakaway),
                   LAMBDA t : cg_if_stmt_then_only(t, merge, at))
        ELSE LET B2 == append_basic_block(B1, "else")
                 else_bb == LastBlock(B2)
                 B3 == build_conditional_branch(B2, then_bb, else_bb, "if", at)
             IN  AndThen(
                   cg_block(position_at_end(B3, then_bb), then_bb, stmt.then,
                            breakaway),
                   LAMBDA t : cg_if_stmt_else(t, else_bb, stmt, breakaway))

\* branch::cg_if_stmt
cg_if_stmt(B, bb, stmt, breakaway) ==
    AndThen(cg_expr(B, bb, stmt.cond, stmt.span),
            LAMBDA c : cg_if_stmt_branches(c, stmt, breakaway))

\* switch::cg_switch_stmt, the builder left at the post-switch block
cg_switch_stmt_post(B6, post) == BasicBlockAnd(position_at_end(B6, post), post)

\* switch::cg_switch_stmt, the arms in source order, each in its block and
\* each followed by the implicit branch to the post-switch block when it
\* falls through
RECURSIVE cg_switch_stmt_arms(_, _, _, _, _, _)
cg_switch_stmt_arms(B, arms, bbs, post, at, breakaway) ==
    IF arms = <<>> THEN cg_switch_stmt_post(B, post)
    ELSE AndThen(
           cg_block(position_at_end(B, Head(bbs)), Head(bbs), Head(arms), breakaway),
           LAMBDA r : cg_switch_stmt_arms(branch_if_open(r, post, "post", at),
                                          Tail(arms), Tail(bbs), post, at, breakaway))

\* n blocks appended one after the other
RECURSIVE append_basic_blocks(_, _, _)
append_basic_blocks(B, n, name) ==
    IF n = 0 THEN B ELSE append_basic_blocks(append_basic_block(B, name), n - 1, name)

\* switch::cg_switch_stmt, after the scrutinee s: a block per case arm, one
\* for the default if there is one, the post-switch block, and the switch
\* terminator, whose default destination is the post-switch block when
\* there is no default arm
cg_switch_stmt_cases(s, stmt, breakaway) ==
    LET at == stmt.span
        n == Len(stmt.cases)
        B1 == append_basic_blocks(s.B, n, "case")
        case_bbs == [i \in 1..n |-> LastBlock(s.B) + i]
        B2 == IF IsSome(stmt.default) THEN append_basic_block(B1, "default") ELSE B1
        default_bb == LastBlock(B2)
        B3 == append_basic_block(B2, "post")
        post == LastBlock(B3)
        B4 == build(B3, Instr("switch",
                              case_bbs \o <<IF IsSome(stmt.default) THEN default_bb
                                            ELSE post>>,
                              "switch", at))
    IN  IF IsSome(stmt.default)
        THEN cg_switch_stmt_arms(B4, stmt.cases \o <<Unwrap(stmt.default)>>,
                                 case_bbs \o <<default_bb>>, post, at, breakaway)
        ELSE cg_switch_stmt_arms(B4, stmt.cases, case_bbs, post, at, breakaway)

\* switch::cg_switch_stmt
cg_switch_stmt(B, bb, stmt, breakaway) ==
    AndThen(cg_expr(B, bb, stmt.scrutinee, stmt.span),
            LAMBDA s : cg_switch_stmt_cases(s, stmt, breakaway))

\* a `return;` lowered to a return without operand
return_none_void == None
\* the operand of the return built for ReturnStmt(None): the zero value of
\* the unit type
return_none_operand == Some(const_zero("Unit"))

\* the match over TypedStmtKind inside cg_block's try_fold
cg_stmt(B, bb, stmt, breakaway) ==
    CASE stmt.k = "UnreachableStmt" ->
           BasicBlockAnd(build(B, Instr("unreachable", <<>>, "unreachable", stmt.span)),
                         NoBlock)
      [] stmt.k = "SwitchCase" -> cg_switch_stmt(B, bb, stmt, breakaway)
      [] stmt.k = "ExprStmt" -> cg_expr(B, bb, stmt.expr, stmt.span)
      [] stmt.k = "IfStmt" -> cg_if_stmt(B, bb, stmt, breakaway)
      [] stmt.k = "BlockStmt" ->
           cg_block(B, bb, Spanned(stmt.body, stmt.span), breakaway)
      [] stmt.k = "ReturnStmt" /\ IsSome(stmt.value) ->
           AndThen(cg_expr(B, bb, Unwrap(stmt.value), stmt.span),
                   LAMBDA expr : BasicBlockAnd(
                                   build_return(expr.B, Some(expr.value), stmt.span),
                                   NoBlock))
      [] stmt.k = "ReturnStmt" /\ ~IsSome(stmt.value) ->
           BasicBlockAnd(build_return(B, return_none_operand, stmt.span), NoBlock)
      [] stmt.k = "DeclarationList" ->
           cg_let_declaration(B, bb, stmt.declarations, stmt.span)
      [] stmt.k \in {"ContinueStmt", "BreakStmt"} ->
           cg_break_continue(B, stmt, breakaway)
      [] stmt.k = "ForStmt" -> cg_for_stmt(B, bb, stmt)
      [] stmt.k = "WhileStmt" -> cg_while_stmt(B, stmt)
      [] stmt.k = "DoWhileStmt" -> cg_do_while_stmt(B, stmt)

\* a walk that goes on with the next statement after a terminating one
cg_stmts_rest_walks_on(r, stmts, breakaway) ==
    cg_stmts(r.B, IF r.bb = NoBlock THEN r.B.pos ELSE r.bb, stmts, breakaway)

\* try_fold: Some(bb) goes on with the next statement, None ends the walk
cg_stmts_rest(r, stmts, breakaway) ==
    IF r.bb = NoBlock THEN r ELSE cg_stmts(r.B, r.bb, stmts, breakaway)

\* the try_fold over the statements
cg_stmts(B, bb, stmts, breakaway) ==
    IF stmts = <<>> THEN BasicBlockAnd(B, bb)
    ELSE AndThen(cg_stmt(B, bb, Head(stmts), breakaway),
                 LAMBDA r : cg_stmts_rest(r, Tail(stmts), breakaway))

\* the statements are generated in `parent_scope.clone()`
cg_block(B, bb, block, breakaway) ==
    AndThen(cg_stmts(B, bb, block.v, breakaway), LAMBDA r : drop_scope(r, B.scope))

(***************************************************************************)
(* Inputs.                                                                 *)
(***************************************************************************)
ReturnValues == {None, Some(CallExpr("I32")), Some(CallExpr("I8")), Some(CallExpr("Bool"))}

\* what type_block is handed when it is checked on its own
TcAlphabet ==
    [leaves |-> {EmptyStmt, BreakStmt, ContinueStmt, UnreachableStmt,
                 ExprStmt(CallExpr("I32")), ExprStmt(UnknownIdent)}
                \cup {ReturnStmt(v) : v \in ReturnValues},
     kinds |-> {"BlockStmt", "IfStmt", "IfElse", "WhileStmt", "DoWhileStmt",
                "ForStmt", "SwitchCase", "SwitchDefault"},
     conds |-> {CallExpr("Bool")},
     fors |-> {<<None, Some(CallExpr("Bool")), None>>}]

Abilities ==
    {MustNotReturn} \cup {MayReturn(t) : t \in {"Unit", "I32"}}
                    \cup {MustReturn(t) : t \in {"Unit", "I32"}}

\* the calls of type_block on blocks of at most n statements over A
Inputs(n, A, flags, abilities) ==
    {[block |-> Parse(b), can_use_break_continue |-> c, ability |-> a] :
        b \in BlocksUpTo(n, A), c \in flags, a \in abilities}

(***************************************************************************)
(* State machine.                                                          *)
(***************************************************************************)
TcPending == [status |-> "pending", tast |-> <<>>, act |-> "", diag |-> NoDiagnostic]
CgPending == [status |-> "pending"]
PlIdle == [status |-> "idle"]
CliIdle == [status |-> "idle"]
\* what the driver keeps of type_block's result r
TcDone(r) ==
    [status |-> IF r.ok THEN "ok" ELSE IF r.diag.kind = "PANIC" THEN "panic" ELSE "err",
     tast |-> r.tast, act |-> r.act, diag |-> r.diag]
\* the function as cg_block left it: r.bb is the block generation ended in
CgDone(r) ==
    [status |-> "done", blocks |-> r.B.blocks, loops |-> r.B.loops,
     panic |-> r.B.panic, bb |-> r.bb, scope |-> r.B.scope]
\* the instructions and the pointer cg_place returned for a place
PlDone(place, r) ==
    [status |-> "done", place |-> place, blocks |-> r.B.blocks, bb |-> r.bb,
     value |-> r.value, panic |-> r.B.panic]

\* the driver's call of type_block on the outermost block
TypeBlock ==
    /\ tc.status = "pending"
    /\ tc' = TcDone(type_block(EmptyScope, input.block,
                               input.can_use_break_continue, input.ability))
    /\ UNCHANGED <<input, cg, pl, cli>>

\* code generation of the accepted function body: the entry block, then
\* cg_block on the TAST with no breakaway
CgFunction ==
    /\ tc.status = "ok"
    /\ cg.status = "pending"
    /\ cg' = CgDone(cg_block(NewFunction, 1, Spanned(tc.tast, input.block.span),
                             None))
    /\ UNCHANGED <<input, tc, pl, cli>>

\* what a function body of the compiled program is made of
CgAlphabet ==
    [leaves |-> {BreakStmt, ContinueStmt, UnreachableStmt,
                 ExprStmt(CallExpr("I32")), ReturnStmt(None)},
     kinds |-> {"BlockStmt", "IfStmt", "IfElse", "WhileStmt", "DoWhileStmt",
                "ForStmt", "SwitchCase", "SwitchDefault"},
     conds |-> {CallExpr("Bool"), LogicalExpr},
     fors |-> {<<None, None, None>>,
               <<Some(<<LetDeclaration("i", "I32", Some(LitExpr("I32")))>>),
                 Some(CallExpr("Bool")), Some(CallExpr("I32"))>>,
               <<None, Some(LogicalExpr), Some(LogicalExpr)>>}]

\* a function body is checked at the root: no break / continue, MustReturn
\* of the declared return type
Init ==
    /\ input \in Inputs(MaxCgNodes, CgAlphabet, {FALSE}, {MustReturn("Unit")})
    /\ tc = TcPending
    /\ cg = CgPending
    /\ pl = PlIdle
    /\ cli = CliIdle

Next == TypeBlock \/ CgFunction

Spec == Init /\ [][Next]_vars

InitTc ==
    /\ input \in Inputs(MaxTcNodes, TcAlphabet, BOOLEAN, Abilities)
    /\ tc = TcPending
    /\ cg = CgPending
    /\ pl = PlIdle
    /\ cli = CliIdle

NextTc == TypeBlock

SpecTc == InitTc /\ [][NextTc]_vars

(***************************************************************************)
(* cg_place on its own: the places of nesting depth at most d over one     *)
(* variable `x` and a struct / union type with the fields of Fields.       *)
(***************************************************************************)
RECURSIVE PlacesOfDepth(_)
ExprsOver(places) ==
    {ConstExpr} \cup {ReadExpr(p) : p \in places} \cup {AddrOfExpr(p) : p \in places}
PlacesOfDepth(d) ==
    IF d = 0 THEN {VariablePlace("x")}
    ELSE LET P == PlacesOfDepth(d - 1)
             E == ExprsOver(P)
             I == {ConstExpr, ReadExpr(VariablePlace("x"))}
         IN  {VariablePlace("x")}
             \cup {DerefPlace(e) : e \in E}
             \cup {IndexPlace(e, i) : e \in E, i \in I}
             \cup {DotPlace(p, agg, f) : p \in P, agg \in {"Struct", "Union"},
                                         f \in {"x", "y"}}

\* a function whose scope binds the variable `x` to its stack slot
PlaceFunction == [NewFunction EXCEPT !.scope = insert(EmptyScope, "x", Slot("x"))]

\* a call of cg_place at the start of the entry block of that function
CgPlace ==
    /\ pl.status = "pending"
    /\ pl' = PlDone(pl.place, cg_place(PlaceFunction, 1, pl.place))
    /\ UNCHANGED <<input, tc, cg, cli>>

InitPlace ==
    /\ input = [block |-> Parse(<<>>), can_use_break_continue |-> FALSE,
                ability |-> MustReturn("Unit")]
    /\ tc = TcPending
    /\ cg = CgPending
    /\ pl \in {[status |-> "pending", place |-> p] : p \in PlacesOfDepth(MaxPlaceDepth)}
    /\ cli = CliIdle

NextPlace == CgPlace

SpecPlace == InitPlace /\ [][NextPlace]_vars

(***************************************************************************)
(* Reading syntax trees (AST and TAST share the field names).              *)
(***************************************************************************)
\* the statement vectors directly below a statement
SubBlocks(st) ==
    CASE st.k = "BlockStmt" -> <<st.body>>
      [] st.k = "IfStmt" ->
           <<st.then.v>> \o (IF IsSome(st.then_else)
                             THEN <<Unwrap(st.then_else).v>> ELSE <<>>)
      [] st.k \in LoopKinds -> <<st.body.v>>
      [] st.k = "SwitchCase" ->
           [i \in 1..Len(st.cases) |-> st.cases[i].v]
             \o (IF IsSome(st.default) THEN <<Unwrap(st.default).v>> ELSE <<>>)
      [] OTHER -> <<>>

\* every statement of a vector, at every depth
RECURSIVE AllStmts(_)
AllStmts(v) ==
    UNION {{v[i]} \cup UNION {AllStmts(SubBlocks(v[i])[j]) :
                                  j \in 1..Len(SubBlocks(v[i]))} :
               i \in 1..Len(v)}

\* a statement is identified by its kind and span
StmtIds(v) == {<<st.k, st.span>> : st \in AllStmts(v)}

\* the combined actuality of the statements of the outermost block, before
\* it is reconciled with the ability
StmtsResult ==
    type_stmts(EmptyScope, input.block.v, input.can_use_break_continue,
               input.ability)
CombinedActuality == combine_actualities(StmtsResult.acts)

Last(q) == q[Len(q)]

(***************************************************************************)
(* C2.  A block checked under MustReturn(T), T # Unit, whose statements    *)
(* all type-check either succeeds with AlwaysReturns or fails with         *)
(* ExpectedABlockToReturn on the span of the whole block.                  *)
(***************************************************************************)
C2_MustReturnNonUnit ==
    (/\ tc.status # "pending"
     /\ input.ability.a = "MustReturn"
     /\ input.ability.ty # "Unit"
     /\ StmtsResult.ok)
    => \/ /\ tc.status = "ok"
          /\ tc.act = "AlwaysReturns"
       \/ /\ tc.status = "err"
          /\ tc.diag = Diagnostic("ExpectedABlockToReturn", input.block.span, "", "")

\* a block that only sometimes returns is rejected under MustReturn(i32)
C2_Witness ==
    /\ tc.status = "err"
    /\ tc.diag.kind = "ExpectedABlockToReturn"
    /\ input.ability = MustReturn("I32")
    /\ CombinedActuality = "SometimesReturns"

(***************************************************************************)
(* C3.  The implicit `return;` is appended exactly when the ability is     *)
(* MustReturn(Unit) and the statements' combined actuality is Never or     *)
(* Sometimes; it is then the last statement, spans the last byte of the    *)
(* block, and the result is AlwaysReturns.  Otherwise the TAST holds no    *)
(* statement that was not in the input.                                    *)
(***************************************************************************)
ImplicitReturnDue ==
    /\ input.ability = MustReturn("Unit")
    /\ CombinedActuality \in {"NeverReturns", "SometimesReturns"}

C3_ImplicitReturn ==
    /\ (tc.status # "pending" /\ StmtsResult.ok /\ ImplicitReturnDue)
         => tc.status = "ok"
    /\ tc.status = "ok" =>
         LET added == StmtIds(tc.tast) \ StmtIds(input.block.v)
             end == SpanEnd(input.block.span)
         IN  IF ImplicitReturnDue
             THEN /\ added = {<<"ReturnStmt", Span(end - 1, end)>>}
                  /\ Len(tc.tast) > 0
                  /\ Last(tc.tast) = [k |-> "ReturnStmt", span |-> Span(end - 1, end),
                                      value |-> None]
                  /\ Len(tc.tast) = Len(StmtsResult.tast) + 1
                  /\ tc.act = "AlwaysReturns"
             ELSE /\ added = {}
                  /\ tc.tast = StmtsResult.tast

\* `{ if (c) { return; } }` under MustReturn(Unit): the return is appended
\* after a statement that sometimes returns
C3_Witness ==
    /\ tc.status = "ok"
    /\ ImplicitReturnDue
    /\ CombinedActuality = "SometimesReturns"
    /\ Len(tc.tast) = 2

(***************************************************************************)
(* C4.  A return statement under MayReturn(T) / MustReturn(T): a value of  *)
(* type T is kept, a value that casts implicitly to T is wrapped in a cast *)
(* to T, any other value is rejected with ExpectedGot at the span of the   *)
(* return.  So in an accepted TAST every returned expression has type T    *)
(* and `return;` appears only when T is Unit.                              *)
(***************************************************************************)
Returns(v) == {st \in AllStmts(v) : st.k = "ReturnStmt"}
\* the type of the value of an AST return statement (Unit when absent)
ReturnedType(st) == IF IsSome(st.value) THEN Unwrap(st.value).ty ELSE "Unit"
\* the return statement of the input that a TAST return statement comes from
SourceOf(t) == CHOOSE st \in Returns(input.block.v) : st.span = t.span

C4_ReturnCoercion ==
    (tc.status # "pending" /\ input.ability.a # "MustNotReturn") =>
      LET T == input.ability.ty
          first == input.block.v[1]
      IN  \* the accepted TAST
          /\ tc.status = "ok" =>
               \A t \in Returns(tc.tast) :
                  /\ IsSome(t.value) => Unwrap(t.value).inferred_type = T
                  /\ ~IsSome(t.value) => T = "Unit"
                  /\ (\E st \in Returns(input.block.v) : st.span = t.span)
                        => LET src == SourceOf(t)
                           IN  IF ReturnedType(src) = T
                               THEN t.value = IF IsSome(src.value)
                                              THEN Some(TypedExpr(T, Unwrap(src.value).e))
                                              ELSE None
                               ELSE /\ can_implicitly_cast_to(ReturnedType(src), T)
                                    /\ IsSome(src.value) =>
                                         t.value = Some(CastExpr(T,
                                            TypedExpr(ReturnedType(src),
                                                      Unwrap(src.value).e)))
          \* the rejection, wherever it is raised
          /\ (tc.status = "err" /\ tc.diag.kind = "ExpectedGot") =>
               \E st \in Returns(input.block.v) :
                  /\ st.span = tc.diag.span
                  /\ ~can_implicitly_cast_to(ReturnedType(st), T)
                  /\ tc.diag.expected = to_string(T)
                  /\ tc.diag.got = to_string(ReturnedType(st))
          \* a return that is the first statement checked
          /\ (Len(input.block.v) > 0 /\ first.k = "ReturnStmt"
                /\ ~can_implicitly_cast_to(ReturnedType(first), T)) =>
               /\ tc.status = "err"
               /\ tc.diag = Diagnostic("ExpectedGot", first.span, to_string(T),
                                       to_string(ReturnedType(first)))

\* `return <i8>;` nested in a block of a function returning i32 is accepted
\* with the value wrapped in a cast
C4_Witness ==
    /\ tc.status = "ok"
    /\ input.ability.a = "MustReturn"
    /\ \E t \in Returns(tc.tast) :
          /\ IsSome(t.value)
          /\ Unwrap(t.value).kind = "cast"
          /\ Unwrap(t.value).inferred_type = "I32"
          /\ t \notin {tc.tast[i] : i \in 1..Len(tc.tast)}

(***************************************************************************)
(* C5.  `break` / `continue` is accepted iff can_use_break_continue holds  *)
(* for the block that directly contains it; the flag passes unchanged into *)
(* a nested block and into if branches and is true in loop bodies.         *)
(* Otherwise the call fails with CannotUse{Break,Continue}OutsideOfLoop at *)
(* the statement's span and yields no TAST.                                *)
(***************************************************************************)
BreakKinds == {"BreakStmt", "ContinueStmt"}
BreakDiagnostic(k) ==
    IF k = "BreakStmt" THEN "CannotUseBreakOutsideOfLoop"
    ELSE "CannotUseContinueOutsideOfLoop"

\* the break / continue statements of a vector, each with the flag of the
\* block that directly contains it
RECURSIVE BreaksWithFlag(_, _)
BreaksWithFlag(v, flag) ==
    UNION {
        LET st == v[i]
            below(f) == UNION {BreaksWithFlag(SubBlocks(st)[j], f) :
                                   j \in 1..Len(SubBlocks(st))}
        IN  CASE st.k \in BreakKinds -> {<<st.k, st.span, flag>>}
              [] st.k \in {"BlockStmt", "IfStmt"} -> below(flag)
              [] st.k \in LoopKinds -> below(TRUE)
              [] st.k = "SwitchCase" -> below(FALSE)
              [] OTHER -> {}
        : i \in 1..Len(v)}

InputBreaks == BreaksWithFlag(input.block.v, input.can_use_break_continue)

C5_BreakContinue ==
    tc.status # "pending" =>
      LET first == input.block.v[1]
      IN  \* accepted: every break / continue sits where the flag is true,
          \* and all of them are in the TAST
          /\ tc.status = "ok" =>
               /\ \A b \in InputBreaks : b[3]
               /\ {<<b[1], b[2]>> : b \in InputBreaks}
                    = {id \in StmtIds(tc.tast) : id[1] \in BreakKinds}
          \* rejected for a break / continue: it sits where the flag is false
          /\ (tc.status = "err" /\ tc.diag.kind \in {BreakDiagnostic(k) : k \in BreakKinds}) =>
               /\ \E b \in InputBreaks :
                     /\ ~b[3]
                     /\ tc.diag = Diagnostic(BreakDiagnostic(b[1]), b[2], "", "")
               /\ tc.tast = <<>>
          \* a break / continue that is the first statement checked
          /\ (Len(input.block.v) > 0 /\ first.k \in BreakKinds) =>
               IF input.can_use_break_continue
               THEN tc.status = "err" =>
                      tc.diag.span # first.span
               ELSE /\ tc.status = "err"
                    /\ tc.diag = Diagnostic(BreakDiagnostic(first.k), first.span, "", "")

\* `{ { if (c) { break; } } }`-like input at a function root: the break is
\* reached through a block or an if only, and is rejected
C5_Witness ==
    /\ tc.status = "err"
    /\ tc.diag.kind = "CannotUseBreakOutsideOfLoop"
    /\ ~input.can_use_break_continue
    /\ \E st \in AllStmts(input.block.v) :
          /\ st.k \in {"BlockStmt", "IfStmt"}
          /\ Inside(tc.diag.span, st.span)

(***************************************************************************)
(* Reading the generated CFG.                                              *)
(***************************************************************************)
BlockIds == 1..Len(cg.blocks)
InstrsOf(i) == cg.blocks[i].instrs
IsTerminator(ins) == ins.op \in Terminators
\* the block ends with a terminator
Terminated(i) ==
    /\ Len(InstrsOf(i)) > 0
    /\ IsTerminator(Last(InstrsOf(i)))
\* no terminator before the last instruction
NothingAfterTerminator(i) ==
    \A j \in 1..Len(InstrsOf(i)) : IsTerminator(InstrsOf(i)[j]) => j = Len(InstrsOf(i))
\* every instruction of the function, with the block that holds it
AllInstrs ==
    UNION {{<<i, InstrsOf(i)[j]>> : j \in 1..Len(InstrsOf(i))} : i \in BlockIds}
\* the instructions emitted in a role for the statement at a span
Emitted(role, at) == {p \in AllInstrs : p[2].role = role /\ p[2].at = at}

\* the loop statements of the TAST whose body encloses the span s
EnclosingLoops(s) ==
    {l \in AllStmts(tc.tast) : l.k \in LoopKinds /\ Inside(s, l.body.span)}
InnermostLoop(s) ==
    CHOOSE l \in EnclosingLoops(s) :
        \A m \in EnclosingLoops(s) : m = l \/ Inside(l.span, m.span)
\* the blocks created for the loop statement at a span
LoopAt(at) == CHOOSE r \in cg.loops : r.at = at
\* the break / continue instructions that belong to the loop at a span
JumpsOf(role, at) ==
    {p \in AllInstrs : /\ p[2].role = role
                       /\ EnclosingLoops(p[2].at) # {}
                       /\ InnermostLoop(p[2].at).span = at}
\* the blocks reachable from a block without passing through `without`
RECURSIVE ReachableFrom(_, _)
ReachableFrom(seen, without) ==
    LET next == {t \in BlockIds \ without :
                    \E i \in seen : \E j \in 1..Len(InstrsOf(i)) :
                        \E n \in 1..Len(InstrsOf(i)[j].targets) :
                            InstrsOf(i)[j].targets[n] = t}
    IN  IF next \subseteq seen THEN seen ELSE ReachableFrom(seen \cup next, without)

(***************************************************************************)
(* C1.  Every basic block of the CFG generated for an accepted function    *)
(* body ends with exactly one terminator and holds no instruction after    *)
(* it.                                                                     *)
(***************************************************************************)
C1_EveryBlockTerminated ==
    cg.status = "done" =>
      \A i \in BlockIds : Terminated(i) /\ NothingAfterTerminator(i)

\* what the generated code does satisfy: no instruction follows a terminator,
\* and only the block in which generation ended can lack one
NothingAfterAnyTerminator ==
    cg.status = "done" => \A i \in BlockIds : NothingAfterTerminator(i)
OnlyCurrentBlockOpen ==
    cg.status = "done" => \A i \in BlockIds : ~Terminated(i) => i = cg.bb
NoCodegenPanic == cg.status = "done" => ~cg.panic

(***************************************************************************)
(* C6.  Every break / continue of an accepted function body has an         *)
(* enclosing loop, its lowering finds a LoopBreakaway, and the branch it   *)
(* emits goes to the exit block / continue target of the innermost         *)
(* enclosing loop.                                                         *)
(***************************************************************************)
\* on_continue of a loop: the latch of a for, the header of a do-while, and
\* for a while the block its `header` variable names when the body is
\* generated
ContinueTarget(r) ==
    CASE r.kind = "ForStmt" -> r.latch
      [] r.kind = "WhileStmt" -> r.cond_end
      [] OTHER -> r.header

C6_BreakawayOfInnermostLoop ==
    /\ tc.status = "ok" =>
         \A st \in AllStmts(tc.tast) :
            st.k \in BreakKinds => EnclosingLoops(st.span) # {}
    /\ cg.status = "done" =>
         /\ ~cg.panic
         /\ \A p \in AllInstrs :
               p[2].role \in {"break", "continue"} =>
                 /\ EnclosingLoops(p[2].at) # {}
                 /\ LET r == LoopAt(InnermostLoop(p[2].at).span)
                    IN  p[2].targets = <<IF p[2].role = "break" THEN r.exit
                                          ELSE ContinueTarget(r)>>

\* `while (c) { while (d) { } break; }`: a break of the outer loop's body
\* that follows an inner loop
C6_Witness ==
    /\ cg.status = "done"
    /\ \E p \in AllInstrs, inner \in cg.loops :
          /\ p[2].role = "break"
          /\ EnclosingLoops(p[2].at) # {}
          /\ Inside(inner.at, InnermostLoop(p[2].at).span)
          /\ SpanStart(p[2].at) >= SpanEnd(inner.at)

(***************************************************************************)
(* C7.  The CFG of a while statement: the block before the loop branches   *)
(* to `header`, where the condition is evaluated; the condition's branch   *)
(* goes to `body` or `exit`; break goes to `exit`; continue and the body's *)
(* fall-through go to `header`, the block in which evaluation of the       *)
(* condition begins.                                                       *)
(***************************************************************************)
EntryAndCondition(r, first) ==
    /\ \E p \in Emitted("pre", r.at) :
          p[1] = r.pre /\ p[2].op = "br" /\ p[2].targets = <<first>>
    /\ Cardinality(Emitted("pre", r.at)) = 1
    /\ \A p \in Emitted("cond", r.at) :
          /\ p[1] = r.cond_end
          /\ p[1] \in ReachableFrom({r.header}, {r.body, r.exit})
    /\ \A p \in JumpsOf("break", r.at) : p[2].targets = <<r.exit>>

C7_WhileShape ==
    cg.status = "done" =>
      \A r \in cg.loops :
         r.kind = "WhileStmt" =>
           /\ EntryAndCondition(r, r.header)
           /\ \E p \in Emitted("cond", r.at) :
                 p[2].op = "condbr" /\ p[2].targets = <<r.body, r.exit>>
           /\ \A p \in JumpsOf("continue", r.at) \cup Emitted("fall", r.at) :
                 p[2].targets = <<r.header>>

\* the same, for the loops whose condition is lowered within one block
WhileShapeSingleBlockCond ==
    cg.status = "done" =>
      \A r \in cg.loops :
         (r.kind = "WhileStmt" /\ r.cond_end = r.header) =>
           /\ EntryAndCondition(r, r.header)
           /\ \E p \in Emitted("cond", r.at) :
                 p[2].op = "condbr" /\ p[2].targets = <<r.body, r.exit>>
           /\ \A p \in JumpsOf("continue", r.at) \cup Emitted("fall", r.at) :
                 p[2].targets = <<r.header>>

(***************************************************************************)
(* C8.  The CFG of a for statement: `init` runs in the preheader, which    *)
(* branches to `header`; the condition's branch goes to `body` or `exit`   *)
(* (an absent condition branches to `body`); break goes to `exit`;         *)
(* continue and the body's fall-through go to `latch`; `latch` runs `post` *)
(* and branches to the block in which evaluation of the condition begins.  *)
(***************************************************************************)
ForStmtAt(at) == CHOOSE st \in AllStmts(tc.tast) : st.k = "ForStmt" /\ st.span = at

ForShapeButLatch(r) ==
    /\ EntryAndCondition(r, r.header)
    /\ IF IsSome(ForStmtAt(r.at).init)
       THEN \A p \in Emitted("init", r.at) :
               p[1] = IF p[2].op = "alloca" THEN 1 ELSE r.pre
       ELSE Emitted("init", r.at) = {}
    /\ IsSome(ForStmtAt(r.at).init) => Cardinality(Emitted("init", r.at)) = 2
    /\ \E p \in Emitted("cond", r.at) :
          IF IsSome(ForStmtAt(r.at).cond)
          THEN p[2].op = "condbr" /\ p[2].targets = <<r.body, r.exit>>
          ELSE p[2].op = "br" /\ p[2].targets = <<r.body>>
    /\ \A p \in JumpsOf("continue", r.at) \cup Emitted("fall", r.at) :
          p[2].targets = <<r.latch>>
    /\ Cardinality(Emitted("latch", r.at)) = 1
    /\ \A p \in Emitted("latch", r.at) :
          p[1] \in ReachableFrom({r.latch}, {r.header, r.body, r.exit})

C8_ForShape ==
    cg.status = "done" =>
      \A r \in cg.loops :
         r.kind = "ForStmt" =>
           /\ ForShapeButLatch(r)
           /\ \A p \in Emitted("latch", r.at) : p[2].targets = <<r.header>>

ForShapeSingleBlockCond ==
    cg.status = "done" =>
      \A r \in cg.loops :
         (r.kind = "ForStmt" /\ r.cond_end = r.header) =>
           /\ ForShapeButLatch(r)
           /\ \A p \in Emitted("latch", r.at) : p[2].targets = <<r.header>>

(***************************************************************************)
(* C9.  The CFG of a do-while statement: the block before the loop         *)
(* branches unconditionally to the first block of the body, so the body is *)
(* entered before the condition is evaluated; continue and the body's      *)
(* fall-through go to `header`; the condition's branch goes to the first   *)
(* block of the body or to `exit`; break goes to `exit`.                   *)
(***************************************************************************)
C9_DoWhileShape ==
    cg.status = "done" =>
      \A r \in cg.loops :
         r.kind = "DoWhileStmt" =>
           /\ EntryAndCondition(r, r.body)
           /\ r.header # r.body
           \* the header is reached only through the body
           /\ r.header \notin ReachableFrom({1}, {r.body})
           /\ \E p \in Emitted("cond", r.at) :
                 p[2].op = "condbr" /\ p[2].targets = <<r.body, r.exit>>
           /\ Cardinality(Emitted("cond", r.at)) = 1
           /\ \A p \in JumpsOf("continue", r.at) \cup Emitted("fall", r.at) :
                 p[2].targets = <<r.header>>

\* `do { if (c) { continue; } } while (a() && b());`: a continue and a
\* fall-through of a do-while whose condition spans several blocks
C9_Witness ==
    /\ cg.status = "done"
    /\ \E r \in cg.loops :
          /\ r.kind = "DoWhileStmt"
          /\ r.cond_end # r.header
          /\ JumpsOf("continue", r.at) # {}
          /\ Emitted("fall", r.at) # {}

(***************************************************************************)
(* Reading the instructions cg_place has emitted.                          *)
(***************************************************************************)
EntryInstrs(blocks) == blocks[1].instrs
CountOp(instrs, ops) == Cardinality({i \in 1..Len(instrs) : instrs[i].op \in ops})
\* the rvalue reads of places written in a place / an expression: each is
\* one load when the expression is evaluated
RECURSIVE ReadsOfPlace(_), ReadsOfExpr(_), AddressStepsOfPlace(_), AddressStepsOfExpr(_)
ReadsOfExpr(x) ==
    CASE x.kind = "read" -> 1 + ReadsOfPlace(x.place)
      [] x.kind = "addr" -> ReadsOfPlace(x.place)
      [] OTHER -> 0
ReadsOfPlace(p) ==
    CASE p.kind = "Deref" -> ReadsOfExpr(p.x)
      [] p.kind = "Index" -> ReadsOfExpr(p.ptr) + ReadsOfExpr(p.idx)
      [] p.kind = "Dot" -> ReadsOfPlace(p.x)
      [] OTHER -> 0
\* the Index and struct Dot steps written in a place / an expression
AddressStepsOfExpr(x) ==
    IF x.kind \in {"read", "addr"} THEN AddressStepsOfPlace(x.place) ELSE 0
AddressStepsOfPlace(p) ==
    CASE p.kind = "Deref" -> AddressStepsOfExpr(p.x)
      [] p.kind = "Index" ->
           1 + AddressStepsOfExpr(p.ptr) + AddressStepsOfExpr(p.idx)
      [] p.kind = "Dot" ->
           (IF p.x.inferred_type = "Struct" THEN 1 ELSE 0) + AddressStepsOfPlace(p.x)
      [] OTHER -> 0

(***************************************************************************)
(* C10.  cg_place never loads through the pointer it returns.  Variable:   *)
(* no instruction, the variable's stack slot is returned.  Deref(e): what  *)
(* the evaluation of e emits and nothing else, the value of e is returned. *)
(* Index and struct Dot: the operands' code followed by exactly one GEP,   *)
(* whose result is returned.  At every nesting depth the loads emitted are *)
(* exactly the rvalue reads written in the place, and the GEPs exactly its *)
(* Index and struct Dot steps.                                             *)
(***************************************************************************)
C10_PlaceNeverLoadsPointee ==
    pl.status = "done" =>
      LET p == pl.place
          instrs == EntryInstrs(pl.blocks)
          n == Len(instrs)
      IN  /\ ~pl.panic
          /\ Len(pl.blocks) = 1 /\ pl.bb = 1
          /\ \A i \in 1..n : instrs[i].op = "load" => instrs[i].args[1] # pl.value
          /\ CountOp(instrs, {"load"}) = ReadsOfPlace(p)
          /\ CountOp(instrs, {"gep", "struct_gep"}) = AddressStepsOfPlace(p)
          /\ p.kind = "Variable" => instrs = <<>> /\ pl.value = Slot(p.name)
          /\ p.kind = "Deref" =>
               LET e == cg_expr(PlaceFunction, 1, p.x, Span(0, 0))
               IN  instrs = EntryInstrs(e.B.blocks) /\ pl.value = e.value
          /\ p.kind = "Index" =>
               LET ptr == cg_expr(PlaceFunction, 1, p.ptr, Span(0, 0))
                   idx == cg_expr(ptr.B, ptr.bb, p.idx, Span(0, 0))
               IN  /\ instrs = Append(EntryInstrs(idx.B.blocks),
                                      ValueInstr("gep", <<ptr.value, idx.value>>, Reg(n)))
                   /\ pl.value = Reg(n)
          /\ (p.kind = "Dot" /\ p.x.inferred_type = "Struct") =>
               /\ n > 0
               /\ instrs[n].op = "struct_gep"
               /\ instrs[n].args[2] = position(Fields, p.prop)
               /\ pl.value = instrs[n].res
               /\ CountOp(SubSeq(instrs, 1, n - 1), {"load"}) = ReadsOfPlace(p.x)
               /\ CountOp(SubSeq(instrs, 1, n - 1), {"gep", "struct_gep"})
                    = AddressStepsOfPlace(p.x)

\* `(*x).y` and deeper: a field of a struct reached through a pointer that
\* is read from a place; the read is a load, the field is not loaded
C10_Witness ==
    /\ pl.status = "done"
    /\ pl.place.kind = "Dot"
    /\ pl.place.x.inferred_type = "Struct"
    /\ pl.place.x.kind = "Deref"
    /\ pl.place.x.x.kind = "read"
    /\ pl.place.x.x.place.kind = "Index"
    /\ CountOp(EntryInstrs(pl.blocks), {"load"}) >= 1
    /\ pl.value = Reg(Len(EntryInstrs(pl.blocks)))

(***************************************************************************)
(* C11.  For a place Dot(pl, f) whose base pl is of a union type, cg_place *)
(* returns exactly the pointer cg_place returns for pl and emits nothing   *)
(* beyond what pl emits, whichever field f is: the fields of a union value *)
(* all have the address of the union.                                      *)
(***************************************************************************)
C11_UnionDotSamePointer ==
    (pl.status = "done" /\ pl.place.kind = "Dot"
       /\ pl.place.x.inferred_type = "Union") =>
      LET base == cg_place(PlaceFunction, 1, pl.place.x)
      IN  /\ ~pl.panic
          /\ pl.value = base.value
          /\ pl.blocks = base.B.blocks
          /\ pl.bb = base.bb
          /\ \A f \in {Fields[i] : i \in 1..Len(Fields)} :
                LET other == cg_place(PlaceFunction, 1, [pl.place EXCEPT !.prop = f])
                IN  other.value = pl.value /\ other.B.blocks = pl.blocks

\* `(x[i].y).y` with x[i] a struct and its field y a union: the address is
\* the struct GEP that reaches the union, and no instruction follows it
C11_Witness ==
    /\ pl.status = "done"
    /\ pl.place.kind = "Dot"
    /\ pl.place.x.inferred_type = "Union"
    /\ pl.place.prop = "y"
    /\ pl.place.x.kind = "Dot"
    /\ pl.place.x.x.inferred_type = "Struct"
    /\ pl.place.x.x.kind = "Index"
    /\ Last(EntryInstrs(pl.blocks)).op = "struct_gep"
    /\ pl.value = Last(EntryInstrs(pl.blocks)).res

(***************************************************************************)
(* Declarations and references: function bodies over one name `x`,         *)
(* declared with two different types so that the binding a reference       *)
(* resolves to shows in its type.                                          *)
(***************************************************************************)
ScopeAlphabet ==
    [leaves |-> {DeclarationList(<<LetDeclaration("x", "I32", Some(LitExpr("I32")))>>),
                 DeclarationList(<<LetDeclaration("x", "Bool", None)>>),
                 ExprStmt(IdentExpr("x"))},
     kinds |-> {"BlockStmt", "ForStmt", "WhileStmt"},
     conds |-> {IdentExpr("x")},
     fors |-> {<<Some(<<LetDeclaration("x", "Bool", Some(LitExpr("Bool")))>>),
                 Some(IdentExpr("x")), Some(IdentExpr("x"))>>,
               <<None, Some(IdentExpr("x")), None>>}]

InitScope ==
    /\ input \in Inputs(MaxScopeNodes, ScopeAlphabet, {FALSE}, {MustReturn("Unit")})
    /\ tc = TcPending
    /\ cg = CgPending
    /\ pl = PlIdle
    /\ cli = CliIdle

NextScope == TypeBlock \/ CgFunction

SpecScope == InitScope /\ [][NextScope]_vars

\* the blocks directly below a statement, each with its span
SpannedSubBlocks(st) ==
    CASE st.k = "BlockStmt" -> <<Spanned(st.body, st.span)>>
      [] st.k = "IfStmt" -> <<st.then>> \o st.then_else
      [] st.k \in LoopKinds -> <<st.body>>
      [] st.k = "SwitchCase" -> st.cases \o st.default
      [] OTHER -> <<>>

\* the places of a source text that bind a name: a declaration statement
\* binds from its end to the end of the block it stands in, the `init` of a
\* for binds in the whole for statement
SitesOf(declarations, at, region, whole) ==
    {[name |-> declarations[i].name, ty |-> declarations[i].ty, at |-> at,
      region |-> region, whole |-> whole] : i \in 1..Len(declarations)}
RECURSIVE BindingSites(_, _)
BindingSites(v, block_span) ==
    UNION {(IF v[i].k = "DeclarationList"
            THEN SitesOf(v[i].declarations, v[i].span, block_span, FALSE)
            ELSE IF v[i].k = "ForStmt" /\ IsSome(v[i].init)
            THEN SitesOf(Unwrap(v[i].init), v[i].span, v[i].span, TRUE)
            ELSE {})
           \cup UNION {BindingSites(SpannedSubBlocks(v[i])[j].v,
                                    SpannedSubBlocks(v[i])[j].span) :
                          j \in 1..Len(SpannedSubBlocks(v[i]))} :
              i \in 1..Len(v)}

\* the expressions written directly in a statement
StmtExprs(st) ==
    CASE st.k = "ExprStmt" -> <<st.expr>>
      [] st.k = "ReturnStmt" -> st.value
      [] st.k \in {"IfStmt", "WhileStmt", "DoWhileStmt"} -> <<st.cond>>
      [] st.k = "ForStmt" -> st.cond \o st.post
      [] st.k = "SwitchCase" -> <<st.scrutinee>>
      [] OTHER -> <<>>
\* the references to a name in a source text, and in a TAST with the type
\* the checker gave them
SourceUses(v) ==
    UNION {{[name |-> StmtExprs(st)[i].name, at |-> st.span] :
              i \in {j \in 1..Len(StmtExprs(st)) : StmtExprs(st)[j].e = "ident"}} :
             st \in AllStmts(v)}
TypedUses(v) ==
    UNION {{[name |-> StmtExprs(st)[i].name, at |-> st.span,
             ty |-> StmtExprs(st)[i].inferred_type] :
              i \in {j \in 1..Len(StmtExprs(st)) : StmtExprs(st)[j].kind = "ident"}} :
             st \in AllStmts(v)}

\* lexical resolution: the binding sites in force at a span, and the
\* innermost (latest) of them
InForce(c, at) ==
    IF c.whole THEN at = c.region \/ Inside(at, c.region)
    ELSE Inside(at, c.region) /\ SpanStart(at) >= SpanEnd(c.at)
Candidates(u, sites) == {c \in sites : c.name = u.name /\ InForce(c, u.at)}
Resolves(u, sites) == Candidates(u, sites) # {}
Binding(u, sites) ==
    CHOOSE c \in Candidates(u, sites) :
        \A d \in Candidates(u, sites) : SpanStart(d.at) <= SpanStart(c.at)
\* the loads of the generated function that read a reference, and the
\* stack slot instructions
LoadsAt(at) == {p[2] : p \in {q \in AllInstrs : q[2].op = "load" /\ q[2].at = at}}
Allocas == {p[2] : p \in {q \in AllInstrs : q[2].op = "alloca"}}
InputSites == BindingSites(input.block.v, input.block.span)

(***************************************************************************)
(* C12.  Scopes are lexical in both stages: a reference means the          *)
(* innermost binding whose block (or for statement) contains it and that   *)
(* was declared before it; a binding made in a nested block or in a for's  *)
(* init is not in force after that block or loop.  The checker gives each  *)
(* reference the type of that binding and reports IdentifierNotFound only  *)
(* for a reference with no such binding; the generated code reads each     *)
(* reference through the stack slot of that binding.                       *)
(***************************************************************************)
C12_LexicalScopes ==
    /\ tc.status = "ok" =>
          \A u \in TypedUses(tc.tast) :
              /\ Resolves(u, InputSites)
              /\ u.ty = Binding(u, InputSites).ty
    /\ (tc.status = "err" /\ tc.diag.kind = "IdentifierNotFound") =>
          \E u \in SourceUses(input.block.v) :
              u.at = tc.diag.span /\ ~Resolves(u, InputSites)
    /\ (tc.status = "err" /\ tc.diag.kind = "ExpectedGot") =>
          \E u \in SourceUses(input.block.v) :
              /\ u.at = tc.diag.span
              /\ Resolves(u, InputSites)
              /\ Binding(u, InputSites).ty # "Bool"
    /\ (tc.status # "pending"
        /\ \E u \in SourceUses(input.block.v) : ~Resolves(u, InputSites)) =>
          tc.status = "err"
    /\ cg.status = "done" =>
          /\ ~cg.panic
          /\ cg.scope = EmptyScope
          /\ \A u \in TypedUses(tc.tast) :
                /\ LoadsAt(u.at) # {}
                /\ \A l \in LoadsAt(u.at) :
                      \E a \in Allocas :
                          /\ a.res = l.args[1]
                          /\ a.at = Binding(u, InputSites).at

\* a reference after a nested block or a for that declared `x` with another
\* type: it is compiled against the outer binding
C12_Witness ==
    /\ cg.status = "done"
    /\ \E u \in TypedUses(tc.tast) :
          \E c \in InputSites :
              /\ c.name = u.name
              /\ SpanStart(c.at) < SpanStart(u.at)
              /\ ~InForce(c, u.at)
              /\ c.ty # u.ty
              /\ SpanStart(Binding(u, InputSites).at) < SpanStart(c.at)

\* the orders a sequence of n statements can be written in
Orders(n) == {f \in [1..n -> 1..n] : \A i, j \in 1..n : f[i] = f[j] => i = j}
\* AlwaysReturns if any, else SometimesReturns if any, else NeverReturns
StrongestOf(acts) ==
    IF \E i \in 1..Len(acts) : acts[i] = "AlwaysReturns" THEN "AlwaysReturns"
    ELSE IF \E i \in 1..Len(acts) : acts[i] = "SometimesReturns" THEN "SometimesReturns"
    ELSE "NeverReturns"

(***************************************************************************)
(* C13.  The actuality of a sequence of statements, before it is           *)
(* reconciled with the ability, is AlwaysReturns if some statement always  *)
(* returns, else SometimesReturns if some statement sometimes returns,     *)
(* else NeverReturns (so NeverReturns for an empty block); writing the     *)
(* statements in another order does not change it; under MayReturn it is   *)
(* the actuality type_block returns.                                       *)
(***************************************************************************)
C13_CombinedActuality ==
    (tc.status # "pending" /\ StmtsResult.ok) =>
        /\ CombinedActuality = StrongestOf(StmtsResult.acts)
        /\ input.block.v = <<>> => CombinedActuality = "NeverReturns"
        /\ \A f \in Orders(Len(StmtsResult.acts)) :
              combine_actualities([i \in 1..Len(StmtsResult.acts) |->
                                      StmtsResult.acts[f[i]]])
                = CombinedActuality
        /\ input.ability.a = "MayReturn" =>
              /\ tc.status = "ok"
              /\ tc.act = StrongestOf(StmtsResult.acts)

\* under MayReturn, a statement that sometimes returns followed by one that
\* always returns
C13_Witness ==
    /\ tc.status = "ok"
    /\ input.ability.a = "MayReturn"
    /\ StmtsResult.acts = <<"SometimesReturns", "AlwaysReturns">>
    /\ tc.act = "AlwaysReturns"

(***************************************************************************)
(* Switch statements with one or two cases, with and without a default,    *)
(* over arms that return, do not return, or hold a switch themselves.      *)
(***************************************************************************)
SwitchAlphabet ==
    [leaves |-> {ReturnStmt(Some(CallExpr("I32"))), ExprStmt(CallExpr("I32"))},
     kinds |-> {"SwitchCase", "SwitchTwo", "SwitchTwoDefault"},
     conds |-> {CallExpr("Bool")},
     fors |-> {}]

InitSwitch ==
    /\ input \in Inputs(MaxSwitchNodes, SwitchAlphabet, {FALSE},
                        {MustReturn("I32"), MayReturn("I32")})
    /\ tc = TcPending
    /\ cg = CgPending
    /\ pl = PlIdle
    /\ cli = CliIdle

NextSwitch == TypeBlock

SpecSwitch == InitSwitch /\ [][NextSwitch]_vars

\* the actualities of the arms of the switch st (cases, then default), each
\* arm checked as the block it is
ArmActualities(st) ==
    [i \in 1..Len(SpannedSubBlocks(st)) |->
        type_block(EmptyScope, SpannedSubBlocks(st)[i], FALSE,
                   demote(input.ability)).act]
AllArms(st, a) ==
    \A i \in 1..Len(ArmActualities(st)) : ArmActualities(st)[i] = a
\* the block is one switch statement and nothing else
OnlyASwitch ==
    /\ Len(input.block.v) = 1
    /\ input.block.v[1].k = "SwitchCase"

(***************************************************************************)
(* C14.  A switch always returns iff it has a default and every case and   *)
(* the default always return; it never returns iff no arm ever returns;    *)
(* otherwise it sometimes returns.  A function of non-unit return type     *)
(* whose body is only a switch without default is rejected with            *)
(* ExpectedABlockToReturn, whatever its cases do; with a default, and      *)
(* every arm returning, it is accepted.                                    *)
(***************************************************************************)
C14_SwitchActuality ==
    (tc.status # "pending" /\ StmtsResult.ok) =>
        /\ \A i \in 1..Len(input.block.v) :
              LET st == input.block.v[i]
                  act == StmtsResult.acts[i]
              IN  st.k = "SwitchCase" =>
                    /\ act = "AlwaysReturns" <=>
                          (IsSome(st.default) /\ AllArms(st, "AlwaysReturns"))
                    /\ act = "NeverReturns" <=> AllArms(st, "NeverReturns")
                    /\ act \in Actualities
        /\ (OnlyASwitch /\ input.ability = MustReturn("I32")) =>
              IF IsSome(input.block.v[1].default)
                 /\ AllArms(input.block.v[1], "AlwaysReturns")
              THEN tc.status = "ok" /\ tc.act = "AlwaysReturns"
              ELSE /\ tc.status = "err"
                   /\ tc.diag = Diagnostic("ExpectedABlockToReturn",
                                           input.block.span, "", "")

\* a function returning i32 whose body is a switch on a bool with a
\* returning case for each value and no default: rejected
C14_Witness ==
    /\ tc.status = "err"
    /\ tc.diag.kind = "ExpectedABlockToReturn"
    /\ input.ability = MustReturn("I32")
    /\ OnlyASwitch
    /\ ~IsSome(input.block.v[1].default)
    /\ Len(input.block.v[1].cases) = 2
    /\ input.block.v[1].scrutinee = CallExpr("Bool")
    /\ AllArms(input.block.v[1], "AlwaysReturns")

\* the statement of the outermost block that the statement t of its TAST
\* comes from
TopSource(t) ==
    CHOOSE i \in 1..Len(input.block.v) :
        input.block.v[i].k = t.k /\ input.block.v[i].span = t.span
\* a block below a statement of the outermost block, checked as a block of
\* its own under the demoted ability
CheckedBelow(b, can_use_break_continue) ==
    type_block(EmptyScope, b, can_use_break_continue, demote(input.ability))
\* AlwaysReturns lowered to SometimesReturns
Lowered(a) ==
    CASE a = "AlwaysReturns" -> "SometimesReturns"
      [] a = "SometimesReturns" -> "SometimesReturns"
      [] a = "NeverReturns" -> "NeverReturns"

(***************************************************************************)
(* C15.  A while or for statement has its body's actuality with            *)
(* AlwaysReturns lowered to SometimesReturns, so it never always returns;  *)
(* a do-while statement has its body's actuality unchanged.  The body of   *)
(* each loop is checked with break / continue allowed and with the         *)
(* ability demoted.                                                        *)
(***************************************************************************)
C15_LoopActuality ==
    (tc.status # "pending" /\ StmtsResult.ok) =>
        \A i \in 1..Len(StmtsResult.tast) :
            LET t == StmtsResult.tast[i]
                act == StmtsResult.acts[i]
                b == CheckedBelow(input.block.v[TopSource(t)].body, TRUE)
            IN  t.k \in LoopKinds =>
                  /\ b.ok
                  /\ t.body.v = b.tast
                  /\ t.k \in {"WhileStmt", "ForStmt"} =>
                        act = Lowered(b.act) /\ act # "AlwaysReturns"
                  /\ t.k = "DoWhileStmt" => act = b.act

\* a while / for outside of any loop whose body breaks and, after that,
\* returns: the body always returns, the loop sometimes
C15_Witness ==
    /\ tc.status # "pending"
    /\ ~input.can_use_break_continue
    /\ StmtsResult.ok
    /\ \E i \in 1..Len(StmtsResult.tast) :
          /\ StmtsResult.tast[i].k \in {"WhileStmt", "ForStmt"}
          /\ StmtsResult.acts[i] = "SometimesReturns"
          /\ Len(StmtsResult.tast[i].body.v) = 2
          /\ StmtsResult.tast[i].body.v[1].k = "BreakStmt"
          /\ StmtsResult.tast[i].body.v[2].k = "ReturnStmt"

(***************************************************************************)
(* C16.  An if without else sometimes returns when its then-branch always  *)
(* returns and has the then-branch's actuality otherwise; an if / else     *)
(* always returns if either branch always returns, else sometimes returns  *)
(* if either sometimes returns, else never returns.  Both branches are     *)
(* checked with the ability demoted.                                       *)
(***************************************************************************)
C16_IfActuality ==
    (tc.status # "pending" /\ StmtsResult.ok) =>
        \A i \in 1..Len(StmtsResult.tast) :
            LET t == StmtsResult.tast[i]
                act == StmtsResult.acts[i]
                src == input.block.v[TopSource(t)]
                th == CheckedBelow(src.then, input.can_use_break_continue)
                el == CheckedBelow(Unwrap(src.then_else), input.can_use_break_continue)
            IN  t.k = "IfStmt" =>
                  /\ th.ok
                  /\ t.then.v = th.tast
                  /\ ~IsSome(src.then_else) =>
                        /\ t.then_else = None
                        /\ act = IF th.act = "AlwaysReturns" THEN "SometimesReturns"
                                 ELSE th.act
                  /\ IsSome(src.then_else) =>
                        /\ el.ok
                        /\ Unwrap(t.then_else).v = el.tast
                        /\ act = StrongestOf(<<th.act, el.act>>)

\* an if / else whose then-branch never returns and whose else-branch
\* always returns: the statement always returns
C16_Witness ==
    /\ tc.status = "ok"
    /\ Len(StmtsResult.tast) = 1
    /\ StmtsResult.tast[1].k = "IfStmt"
    /\ IsSome(StmtsResult.tast[1].then_else)
    /\ Len(input.block.v) = 1
    /\ CheckedBelow(input.block.v[1].then, input.can_use_break_continue).act
         = "NeverReturns"
    /\ input.block.v[1].then.v # <<>>
    /\ StmtsResult.acts = <<"AlwaysReturns">>
    /\ input.ability.a = "MustReturn"

\* what is wrong with a statement that holds no block, read off the source:
\* a break / continue outside of a loop, a reference to an undeclared name,
\* a return where none is allowed or of a type that does not cast
LeafFailure(st, can_use_break_continue) ==
    CASE st.k = "BreakStmt" /\ ~can_use_break_continue ->
           {Diagnostic("CannotUseBreakOutsideOfLoop", st.span, "", "")}
      [] st.k = "ContinueStmt" /\ ~can_use_break_continue ->
           {Diagnostic("CannotUseContinueOutsideOfLoop", st.span, "", "")}
      [] st.k = "ExprStmt" /\ st.expr.e = "ident" ->
           {Diagnostic("IdentifierNotFound", st.span, "", "")}
      [] st.k = "ReturnStmt" /\ input.ability.a = "MustNotReturn" ->
           {Diagnostic("CannotReturnHere", st.span, "", "")}
      [] st.k = "ReturnStmt" /\ input.ability.a # "MustNotReturn"
           /\ ~can_implicitly_cast_to(ReturnedType(st), input.ability.ty) ->
           {Diagnostic("ExpectedGot", st.span, to_string(input.ability.ty),
                       to_string(ReturnedType(st)))}
      [] OTHER -> {}
\* break / continue in the blocks below a statement: allowed in a loop body,
\* not in a switch arm, as around the statement otherwise
AllowedBelow(st, can_use_break_continue) ==
    CASE st.k \in LoopKinds -> TRUE
      [] st.k = "SwitchCase" -> FALSE
      [] OTHER -> can_use_break_continue
\* every failure of a statement vector, at every depth
RECURSIVE Failures(_, _)
Failures(v, can_use_break_continue) ==
    UNION {LeafFailure(v[i], can_use_break_continue)
             \cup UNION {Failures(SubBlocks(v[i])[j],
                                  AllowedBelow(v[i], can_use_break_continue)) :
                            j \in 1..Len(SubBlocks(v[i]))} :
              i \in 1..Len(v)}
InputFailures == Failures(input.block.v, input.can_use_break_continue)
\* the failure that comes first in the source text
FirstOf(ds) ==
    CHOOSE d \in ds : \A e \in ds : SpanStart(d.span) <= SpanStart(e.span)
\* the statements of the outermost block that are rejected when checked on
\* their own
FailingStmts ==
    {i \in 1..Len(input.block.v) :
        ~type_stmt(EmptyScope, input.block.v[i], input.can_use_break_continue,
                   input.ability).ok}
FirstFailingStmt == CHOOSE i \in FailingStmts : \A j \in FailingStmts : i <= j

(***************************************************************************)
(* C17.  The diagnostic type_block returns is that of the first failing    *)
(* statement in source order, and for a statement that holds blocks the    *)
(* first failure inside it; the statements after it are not checked and    *)
(* no TAST is returned; ExpectedABlockToReturn for the block itself is     *)
(* reported only when every statement of it type-checks.                   *)
(***************************************************************************)
C17_FirstFailure ==
    tc.status # "pending" =>
        /\ FailingStmts # {} =>
              /\ tc.status # "ok"
              /\ tc.tast = <<>>
              /\ tc.diag = type_stmt(EmptyScope, input.block.v[FirstFailingStmt],
                                     input.can_use_break_continue, input.ability).diag
        /\ (tc.status = "err" /\ InputFailures # {}) =>
              tc.diag = FirstOf(InputFailures)
        /\ (tc.status = "err" /\ InputFailures = {}) =>
              /\ FailingStmts = {}
              /\ tc.diag = Diagnostic("ExpectedABlockToReturn", input.block.span, "", "")
        /\ (tc.status = "err" /\ tc.diag.kind = "ExpectedABlockToReturn") =>
              InputFailures = {} /\ FailingStmts = {}
        /\ tc.status = "ok" => InputFailures = {}

\* two ill-typed statements, the first of them inside a nested statement:
\* the diagnostic is the nested one
C17_Witness ==
    /\ tc.status = "err"
    /\ Cardinality(InputFailures) >= 2
    /\ tc.diag = FirstOf(InputFailures)
    /\ Cardinality({d.kind : d \in InputFailures}) >= 2
    /\ \E i \in 1..Len(input.block.v) : Inside(tc.diag.span, input.block.v[i].span)

(***************************************************************************)
(* Blocks that must not return, over return statements without a value,    *)
(* with a value of each type and with an undeclared name as value.         *)
(***************************************************************************)
ReturnAlphabet ==
    [leaves |-> {ExprStmt(CallExpr("I32"))}
                \cup {ReturnStmt(v) : v \in ReturnValues \cup {Some(UnknownIdent)}},
     kinds |-> {"BlockStmt", "IfStmt", "WhileStmt", "SwitchCase"},
     conds |-> {CallExpr("Bool")},
     fors |-> {}]

InitReturn ==
    /\ input \in Inputs(MaxReturnNodes, ReturnAlphabet, {FALSE}, {MustNotReturn})
    /\ tc = TcPending
    /\ cg = CgPending
    /\ pl = PlIdle
    /\ cli = CliIdle

NextReturn == TypeBlock

SpecReturn == InitReturn /\ [][NextReturn]_vars

\* the return statement that comes first in the source text: with nothing
\* but calls and returns in the block, the first one the checker reaches
FirstReturn ==
    CHOOSE st \in Returns(input.block.v) :
        \A other \in Returns(input.block.v) : SpanStart(st.span) <= SpanStart(other.span)

(***************************************************************************)
(* C18.  Under MustNotReturn every return statement the checker reaches,   *)
(* with or without a value, is rejected with CannotReturnHere at the span  *)
(* of the return statement; no TAST produced under MustNotReturn holds a   *)
(* ReturnStmt at any depth.                                                *)
(***************************************************************************)
C18_CannotReturnHere ==
    (tc.status # "pending" /\ input.ability = MustNotReturn) =>
        /\ Returns(input.block.v) # {} =>
              /\ tc.status = "err"
              /\ tc.diag = Diagnostic("CannotReturnHere", FirstReturn.span, "", "")
        /\ tc.status = "ok" => Returns(tc.tast) = {}

\* the same for the returns whose value, if any, type-checks; a return of
\* an undeclared name is rejected for the name
ReturnOfTypedValueRejected ==
    (tc.status # "pending" /\ input.ability = MustNotReturn) =>
        /\ Returns(input.block.v) # {} =>
              /\ tc.status = "err"
              /\ tc.diag =
                   IF FirstReturn.value = Some(UnknownIdent)
                   THEN Diagnostic("IdentifierNotFound", FirstReturn.span, "", "")
                   ELSE Diagnostic("CannotReturnHere", FirstReturn.span, "", "")
        /\ tc.status = "ok" => Returns(tc.tast) = {}

\* the TAST ends with the implicit `return;` of a unit function
EndsWithImplicitReturn ==
    /\ tc.status = "ok"
    /\ tc.tast # <<>>
    /\ Last(tc.tast) = [k |-> "ReturnStmt", value |-> None,
                        span |-> implicit_return_span(input.block.span)]
\* the function as the statements before the implicit return leave it
BeforeImplicitReturn ==
    cg_stmts(NewFunction, 1, SubSeq(tc.tast, 1, Len(tc.tast) - 1), None)
\* the generated function is that function with one more instruction: a
\* return with the given operand, built for the implicit return at the end
\* of the block generation stood in, which ends the generation
OneReturnEndsFunction(operand) ==
    LET b == BeforeImplicitReturn.bb
        before == BeforeImplicitReturn.B.blocks
    IN  /\ b # NoBlock
        /\ cg.bb = NoBlock
        /\ Len(cg.blocks) = Len(before)
        /\ \A c \in BlockIds \ {b} : cg.blocks[c] = before[c]
        /\ Len(InstrsOf(b)) = Len(before[b].instrs) + 1
        /\ SubSeq(InstrsOf(b), 1, Len(before[b].instrs)) = before[b].instrs
        /\ Last(InstrsOf(b)).op = "ret"
        /\ Last(InstrsOf(b)).at = implicit_return_span(input.block.span)
        /\ Last(InstrsOf(b)).args = operand
        /\ \A i \in 1..Len(before[b].instrs) : ~IsTerminator(before[b].instrs[i])

(***************************************************************************)
(* C19.  For a unit function whose body has no explicit return, the code   *)
(* generated for the implicit ReturnStmt(None) is a single return without  *)
(* operand (`ret void`) that ends the function's last block.               *)
(***************************************************************************)
C19_RetVoid ==
    (cg.status = "done" /\ EndsWithImplicitReturn) => OneReturnEndsFunction(None)

(***************************************************************************)
(* C19, amended.  For a unit function whose body has no explicit return,   *)
(* the code generated for the implicit ReturnStmt(None) is a single return *)
(* whose operand is the zero value of the unit type, and it ends the       *)
(* function's last block.                                                  *)
(***************************************************************************)
C19_RetUnitZero ==
    (cg.status = "done" /\ EndsWithImplicitReturn) =>
        OneReturnEndsFunction(Some(const_zero("Unit")))

\* fn f() { let x = 1; }
C19_Witness ==
    /\ cg.status = "done"
    /\ EndsWithImplicitReturn
    /\ input.block.v
         = <<[k |-> "DeclarationList", span |-> Span(1, 2),
              declarations |-> <<LetDeclaration("x", "I32", Some(LitExpr("I32")))>>]>>
    /\ Len(cg.blocks) = 1
    /\ Last(InstrsOf(1)).op = "ret"
    /\ Last(InstrsOf(1)).args = Some(const_zero("Unit"))

(***************************************************************************)
(* The command line: clap's parse of `-O` / `--opt-level`, `--emit`, `-g`  *)
(* and `--force`, then the conversion of the optimisation level to the     *)
(* backend's.                                                              *)
(***************************************************************************)
\* enum FrontendOptLevel
FrontendOptLevels == {"O0", "O1", "O2", "O3"}
\* enum zrc_codegen::OptimizationLevel
OptimizationLevels == {"None", "Less", "Default", "Aggressive"}
\* #[value(name = .., alias(..))]: the spellings clap accepts for a level
value_names(level) ==
    CASE level = "O0" -> {"0", "none"}
      [] level = "O1" -> {"1"}
      [] level = "O2" -> {"2", "default"}
      [] level = "O3" -> {"3", "aggressive"}
\* clap::ValueEnum::from_str: the level a spelling names, if any
from_str(s) ==
    IF \E level \in FrontendOptLevels : s \in value_names(level)
    THEN Some(CHOOSE level \in FrontendOptLevels : s \in value_names(level))
    ELSE None
\* #[clap(default_value = "default")] of opt_level
opt_level_default_value == "default"
\* enum OutputFormat
OutputFormats ==
    {"llvm", "ast-debug", "ast-debug-pretty", "ast", "tast-debug",
     "tast-debug-pretty", "tast", "asm", "object"}

\* a conversion that has no level above Default
from_opt_level_capped(val) ==
    CASE val = "O0" -> "None"
      [] val = "O1" -> "Less"
      [] val = "O2" -> "Default"
      [] val = "O3" -> "Default"

\* impl From<FrontendOptLevel> for OptimizationLevel
from_opt_level(val) ==
    CASE val = "O0" -> "None"
      [] val = "O1" -> "Less"
      [] val = "O2" -> "Default"
      [] val = "O3" -> "Aggressive"

\* the command lines: `-O` absent or given with a spelling, one of them
\* not a level
OptArgs == {None} \cup {Some(s) : s \in {"0", "none", "1", "2", "default", "3",
                                         "aggressive", "4"}}
CliArgs ==
    {[status |-> "args", opt |-> o, emit |-> e, debug |-> g, force |-> f] :
        o \in OptArgs, e \in OutputFormats, g \in BOOLEAN, f \in BOOLEAN}

\* Cli::parse: the default value stands in for an absent `-O`; a spelling
\* that names no level is a usage error
ParseCli ==
    /\ cli.status = "args"
    /\ LET s == IF IsSome(cli.opt) THEN Unwrap(cli.opt) ELSE opt_level_default_value
       IN  cli' = IF IsSome(from_str(s))
                  THEN [status |-> "parsed", args |-> cli,
                        opt_level |-> Unwrap(from_str(s)), emit |-> cli.emit,
                        debug |-> cli.debug, force |-> cli.force]
                  ELSE [status |-> "usage_error", args |-> cli]
    /\ UNCHANGED <<input, tc, cg, pl>>

\* OptimizationLevel::from(cli.opt_level)
ConvertOptLevel ==
    /\ cli.status = "parsed"
    /\ cli' = [status |-> "converted", args |-> cli.args,
               opt_level |-> cli.opt_level,
               optimization_level |-> from_opt_level(cli.opt_level)]
    /\ UNCHANGED <<input, tc, cg, pl>>

InitCli ==
    /\ input = [block |-> Parse(<<>>), can_use_break_continue |-> FALSE,
                ability |-> MustReturn("Unit")]
    /\ tc = TcPending
    /\ cg = CgPending
    /\ pl = PlIdle
    /\ cli \in CliArgs

NextCli == ParseCli \/ ConvertOptLevel

SpecCli == InitCli /\ [][NextCli]_vars

\* the backend level a `-O` spelling is documented to select
LevelOfSpelling(s) ==
    CASE s \in {"0", "none"} -> "None"
      [] s = "1" -> "Less"
      [] s \in {"2", "default"} -> "Default"
      [] s \in {"3", "aggressive"} -> "Aggressive"

(***************************************************************************)
(* C20.  The conversion of the command line's optimisation level maps O0   *)
(* to None, O1 to Less, O2 to Default and O3 to Aggressive; it is total    *)
(* and injective, so two distinct levels never select the same backend     *)
(* level; without `-O`, and with `-O default`, the level is Default.       *)
(***************************************************************************)
C20_OptLevelConversion ==
    /\ cli.status = "converted" =>
          /\ cli.opt_level = "O0" => cli.optimization_level = "None"
          /\ cli.opt_level = "O1" => cli.optimization_level = "Less"
          /\ cli.opt_level = "O2" => cli.optimization_level = "Default"
          /\ cli.opt_level = "O3" => cli.optimization_level = "Aggressive"
          /\ cli.optimization_level
               = LevelOfSpelling(IF IsSome(cli.args.opt) THEN Unwrap(cli.args.opt)
                                 ELSE "default")
    /\ cli.status = "parsed" =>
          /\ from_opt_level(cli.opt_level) \in OptimizationLevels
          /\ \A other \in FrontendOptLevels :
                from_opt_level(other) = from_opt_level(cli.opt_level)
                  => other = cli.opt_level

\* no `-O` on the command line: the backend level is Default
C20_Witness ==
    /\ cli.status = "converted"
    /\ cli.args.opt = None
    /\ cli.opt_level = "O2"
    /\ cli.optimization_level = "Default"

(***************************************************************************)
(* C21.  Return analysis is sound for the generated CFG: when the          *)
(* statements of a function body checked under MustReturn(T) combine to    *)
(* AlwaysReturns, so that no implicit return is appended, every block      *)
(* reachable from the entry block ends with a terminator: every path ends  *)
(* in a return or unreachable and none reaches a block left open.          *)
(***************************************************************************)
\* the blocks on the paths of the CFG that start at the function's entry
ReachableBlocks == ReachableFrom({1}, {})
\* the body was accepted on the strength of its own statements
AcceptedAsAlwaysReturning ==
    /\ tc.status = "ok"
    /\ input.ability.a = "MustReturn"
    /\ CombinedActuality = "AlwaysReturns"
    /\ tc.tast = StmtsResult.tast

C21_ReturnAnalysisSound ==
    (cg.status = "done" /\ AcceptedAsAlwaysReturning)
    => \A i \in ReachableBlocks : Terminated(i) /\ NothingAfterTerminator(i)

\* `do { break; return; } while (c());` as a whole function body: the block
\* always returns for block.rs:251-259 because one of its statements does,
\* and the `break` before it makes the loop's exit block reachable
BreakBeforeReturn ==
    /\ Len(tc.tast) = 1
    /\ tc.tast[1].k = "DoWhileStmt"
    /\ Len(tc.tast[1].body.v) = 2
    /\ tc.tast[1].body.v[1].k = "BreakStmt"
    /\ tc.tast[1].body.v[2].k = "ReturnStmt"
\* in that function the exit block of the loop is reached and left open
BreakBeforeReturnLeavesExitOpen ==
    (cg.status = "done" /\ AcceptedAsAlwaysReturning /\ BreakBeforeReturn)
    => /\ LoopAt(tc.tast[1].span).exit \in ReachableBlocks
       /\ ~Terminated(LoopAt(tc.tast[1].span).exit)

(***************************************************************************)
(* C22.  type_block under MustNotReturn never reaches its internal-error   *)
(* branch: for every input block, blocks with an `unreachable` statement   *)
(* included, it returns NeverReturns or a Diagnostic.                      *)
(***************************************************************************)
C22_MustNotReturnNeverPanics ==
    (tc.status # "pending" /\ input.ability = MustNotReturn)
    => \/ tc.status = "ok" /\ tc.act = "NeverReturns"
       \/ tc.status = "err"

\* the statements of the input that diverge without returning
UnreachableStmts == {st \in AllStmts(input.block.v) : st.k = "UnreachableStmt"}
\* what does hold: without an `unreachable` statement the branch is not
\* reached, every return having been rejected with a diagnostic
NoPanicWithoutUnreachable ==
    (tc.status # "pending" /\ input.ability = MustNotReturn /\ UnreachableStmts = {})
    => \/ tc.status = "ok" /\ tc.act = "NeverReturns"
       \/ tc.status = "err"
\* and the branch is reached only under MustNotReturn, by an `unreachable`
PanicOnlyByUnreachable ==
    tc.status = "panic" => input.ability = MustNotReturn /\ UnreachableStmts # {}

(***************************************************************************)
(* Statements after which control does not fall through, read off the      *)
(* TAST: a return, break, continue or unreachable, a nested block that     *)
(* holds such a statement, and an if / else both of whose branches do.     *)
(***************************************************************************)
RECURSIVE Terminates(_)
Terminates(st) ==
    CASE st.k \in {"ReturnStmt", "BreakStmt", "ContinueStmt", "UnreachableStmt"} -> TRUE
      [] st.k = "BlockStmt" -> \E i \in 1..Len(st.body) : Terminates(st.body[i])
      [] st.k = "IfStmt" ->
           /\ IsSome(st.then_else)
           /\ \E i \in 1..Len(st.then.v) : Terminates(st.then.v[i])
           /\ \E i \in 1..Len(Unwrap(st.then_else).v) :
                  Terminates(Unwrap(st.then_else).v[i])
      [] OTHER -> FALSE
\* a statement vector holds a terminating statement
TerminatesIn(v) == \E i \in 1..Len(v) : Terminates(v[i])
\* the index of the first terminating statement of a vector, its length
\* when there is none
StopAt(v) ==
    IF TerminatesIn(v)
    THEN CHOOSE i \in 1..Len(v) : Terminates(v[i]) /\ \A j \in 1..(i - 1) : ~Terminates(v[j])
    ELSE Len(v)

\* the TAST without the statements that follow a terminating statement of
\* their block, at every depth
RECURSIVE LiveStmts(_), LiveStmt(_)
LiveStmts(v) == [i \in 1..StopAt(v) |-> LiveStmt(v[i])]
LiveStmt(st) ==
    CASE st.k = "BlockStmt" -> [st EXCEPT !.body = LiveStmts(@)]
      [] st.k = "IfStmt" ->
           [st EXCEPT !.then = Spanned(LiveStmts(@.v), @.span),
                      !.then_else = IF IsSome(@)
                                    THEN Some(Spanned(LiveStmts(Unwrap(@).v),
                                                      Unwrap(@).span))
                                    ELSE None]
      [] st.k \in LoopKinds -> [st EXCEPT !.body = Spanned(LiveStmts(@.v), @.span)]
      [] st.k = "SwitchCase" ->
           [st EXCEPT !.cases = [i \in 1..Len(@) |->
                                    Spanned(LiveStmts(@[i].v), @[i].span)],
                      !.default = IF IsSome(@)
                                  THEN Some(Spanned(LiveStmts(Unwrap(@).v),
                                                    Unwrap(@).span))
                                  ELSE None]
      [] OTHER -> st

\* the statements of the function body that are reached by the walk, and
\* those that follow a terminating statement
Live == AllStmts(LiveStmts(tc.tast))
Dead == {st \in AllStmts(tc.tast) : <<st.k, st.span>> \notin StmtIds(LiveStmts(tc.tast))}
\* the statement vectors the walk enters
LiveVectors ==
    {LiveStmts(tc.tast)}
      \cup UNION {{SubBlocks(st)[j] : j \in 1..Len(SubBlocks(st))} : st \in Live}
\* the instructions emitted for a statement and for the statements in it
EmittedIn(st) == {p \in AllInstrs : Inside(p[2].at, st.span)}
\* the numbers of the value instructions among them, in emission order
NumbersIn(st) ==
    {p[2].res.of : p \in {q \in EmittedIn(st) : "res" \in DOMAIN q[2]
                                                 /\ q[2].res.v = "reg"}}
\* the branches a caller emits after a sub-block whose control falls through
FallThroughs(st) ==
    {p \in AllInstrs : p[2].role \in {"fall", "merge", "post"} /\ p[2].at = st.span}
\* the sub-blocks of a statement that control falls out of
OpenSubBlocks(st) ==
    {j \in 1..Len(SubBlocks(st)) : ~TerminatesIn(SubBlocks(st)[j])}
\* the function generated for the body cut after its terminating statements
LiveFunction ==
    cg_block(NewFunction, 1, Spanned(LiveStmts(tc.tast), input.block.span), None)

MaxStopNodes == 4

StopAlphabet ==
    [leaves |-> {BreakStmt, ContinueStmt, UnreachableStmt,
                 ExprStmt(CallExpr("I32")), ReturnStmt(None)},
     kinds |-> {"BlockStmt", "IfElse", "ForStmt"},
     conds |-> {CallExpr("Bool")},
     fors |-> {<<None, Some(CallExpr("Bool")), Some(CallExpr("I32"))>>}]

InitStop ==
    /\ input \in Inputs(MaxStopNodes, StopAlphabet, {FALSE}, {MustReturn("Unit")})
    /\ tc = TcPending
    /\ cg = CgPending
    /\ pl = PlIdle
    /\ cli = CliIdle

NextStop == TypeBlock \/ CgFunction

SpecStop == InitStop /\ [][NextStop]_vars
====
